---- MODULE Spec2Model ----
(***************************************************************************)
(* A model of the data aggregation and derived-state layer of vanguard:    *)
(* the library aggregation of the root component (src/src/App.tsx), the    *)
(* mastery classifier (src/src/hooks/useMastery.ts and the classifier of   *)
(* the root component), the achievements endpoint of the local gateway     *)
(* (src/unnamed/part_001) and the achievement resolver hook                *)
(* (src/src/context/NotificationContext.tsx, useAchievements).             *)
(*                                                                         *)
(* Each component has its own specification over the shared variables; the *)
(* variables of the other components keep their initial values.            *)
(***************************************************************************)
EXTENDS Integers, Sequences, FiniteSets, Bags, TLC

VARIABLES
    \* ---- library aggregation (App.tsx, gamesData queryFn)
    ownedGames,      \* the owned-games list upstream answered with
    recentGames,     \* the recently-played list upstream answered with
    rawGames,        \* the response array the queryFn works on (mutated in place)
    gamesData,       \* the aggregated list the query returned
    aggPrev,         \* the aggregated list before the last re-aggregation
    aggOp,           \* what produced gamesData: "none", "fetch", "again", "empty"
    \* ---- mastery hook (useMastery.ts)
    games,           \* the games prop of the hook
    steamId,         \* the steamId prop of the hook ("" while logged out)
    masteredAppIds,  \* useState<number[]>: the mastered array
    isValidating,    \* useState(false)
    passes,          \* the verifyMastery invocations awaiting a resolver response (a bag)
    \* ---- classifier of the root component (App.tsx, verifyMastery)
    rootGames,           \* games of the root component
    rootMasteredAppIds,  \* useState<number[]>: masteredAppIds of the root component
    hunterTargets,       \* useState<number[]>: hunterTargets
    rootPasses,          \* the verifyMastery invocations awaiting a resolver response (a bag)
    rootDone,            \* the targets and responses of the pass that stored in the last step
    \* ---- gateway (part_001) and achievement resolver hook (useAchievements)
    STEAM_API_KEY,   \* the credential of the gateway ("" while not configured)
    upstream,        \* how the three upstream requests of the handled request settled
    response,        \* the gateway's answer to the achievements request
    achievements,    \* useState<AchievementWithLink[]>
    loading,         \* useState(false)
    error,           \* useState<string | null>
    resPhase,        \* "idle", "requested", "answered", "done"
    \* ---- library scan (part_002, scanLibrary) and the store endpoint of the gateway
    lsMeta,          \* localStorage 'vanguard-meta-<appid>': the persisted facet cache
    lsGenres,        \* localStorage 'vanguard-genres': the persisted genre set
    isScanning,      \* useState(false)
    availableGenres, \* useState<Set<string>>
    gameMetadata,    \* useState<Record<number, any>>
    scans,           \* the scanLibrary invocations that have not finished
    scanCalls,       \* how often scanLibrary was invoked
    lastSettled,     \* the store request settled in the last step
    scanCompleted,   \* the most recently started scan ran to completion
    \* ---- randomizer, discovery queue and blacklist (part_002 lines 245-263)
    blacklist,       \* useState<number[]>
    lsBlacklist,     \* localStorage 'vanguard-blacklist'
    randomGame,      \* useState<Game | null>: the appid of the pick, 0 for null
    discoveryQueue,  \* useState<Game[]>: the appids of the queue
    \* ---- vault view (part_005, useVault) and the view of the root component (App.tsx lines 270-288)
    vaultProps,      \* the arguments of useVault and hunterTargets of the root component
    searchQuery,     \* useState('')
    vaultGrouping,   \* useState<'none' | 'alpha' | 'status'>
    filteredAndSortedGames, \* useMemo of useVault
    groupedGames,    \* useMemo of useVault
    rootFilteredAndSortedGames, \* useMemo of the root component
    vaultRendered,   \* the memos have been computed for the props
    \* ---- start from local storage (part_002 lines 143-174, 235-239; getStoredLinks)
    storage,         \* what local storage holds under the four kinds of key
    bootState,       \* "unmounted", "mounted", or "crashed" when rendering threw
    bootValues,      \* the initial state the root component computed
    storedLinks,     \* what getStoredLinks returned, once it was called
    \* ---- changing queries of the achievement view (useAchievements effect, lines 113-179)
    viewAppId,       \* the appId prop of useAchievements (0 for null)
    fetches,         \* the fetchAchievements invocations awaiting their answer
    issued,          \* how many fetches were started
    latestResult,    \* what the fetch of the latest query stored, once it has settled
    \* ---- the endpoints of the gateway (part_001 lines 40-202)
    gwEndpoint,      \* the endpoint of the request handled last ("none" before the first)
    gwResponse,      \* the answer to that request
    gwUpstream,      \* the upstream requests issued while handling it
    gwConfigs,       \* the bodies of the configuration requests so far
    \* ---- one pass of verifyMastery, request by request (useMastery.ts lines 11-53)
    passGames,       \* the games the pass was started with
    passSteamId,     \* the steamId the pass was started with
    passValidating,  \* isValidating
    passMasteredAppIds, \* masteredAppIds
    passRun,         \* the position of the pass: its check list, the request it awaits, the requests it issued
    \* ---- the resolver requests of overlapping classifier passes (useMastery.ts lines 10-56)
    fanGames,        \* the games prop of the hook
    fanSteamId,      \* the steamId prop of the hook
    fanValidating,   \* isValidating
    fanPasses,       \* the running verifyMastery invocations, each awaiting one resolver request (a bag)
    \* ---- one library scan, request by request (part_002 lines 182-233)
    batchGames,      \* the appids of games, in list order
    batchFailing,    \* the games whose store request fails
    batchMeta,       \* localStorage 'vanguard-meta-<appid>'
    batchMetaAtStart, \* the facet cache as it was when the scan started
    batchScanning,   \* isScanning
    batchGenres,     \* availableGenres
    batchLsGenres,   \* localStorage 'vanguard-genres', with the number of times it was written
    batchRun,        \* the position of the scan: its targets, its chunk, the requests in flight and the requests it issued
    \* ---- the grouping of a view (part_005 lines 81-105)
    groupView,       \* filteredAndSortedGames, the sequence that is grouped
    groupMode,       \* vaultGrouping
    groupMastered,   \* masteredAppIds
    groupResult,     \* groupedGames
    groupDone,       \* the memo has been computed
    \* ---- the mastered set across accounts (part_002 lines 103-119, useMastery.ts)
    acctSteamId,     \* useState steamId of the root component
    acctGames,       \* games, as useSteamData delivers it
    acctMasteredAppIds, \* masteredAppIds of useMastery
    acctPasses,      \* the running verifyMastery invocations (a bag)
    acctVerified,    \* the pairs of account and game a resolver call has classified as mastered
    \* ---- the notes of the guide overlay (part_003 lines 9-19, 134, 437-441)
    noteGuide,       \* activeGuide.name of the mounted overlay ("" while it is closed)
    notes,           \* useState notes of the overlay
    noteStorage,     \* localStorage 'vanguard-notes-<appid>-<name>', by achievement name
    noteTimer,       \* the pending timeout of the effect: the key and the text it will write
    noteEdited,      \* the text of the last edit of each note
    noteEdits        \* the number of edits so far

aggVars == <<ownedGames, recentGames, rawGames, gamesData, aggPrev, aggOp>>

hookVars == <<games, steamId, masteredAppIds, isValidating, passes>>

rootVars == <<rootGames, rootMasteredAppIds, hunterTargets, rootPasses, rootDone>>

resVars == <<STEAM_API_KEY, upstream, response, achievements, loading, error, resPhase>>

scanVars == <<lsMeta, lsGenres, isScanning, availableGenres, gameMetadata, scans, scanCalls, lastSettled, scanCompleted>>

discVars == <<blacklist, lsBlacklist, randomGame, discoveryQueue>>

vaultVars == <<vaultProps, searchQuery, vaultGrouping, filteredAndSortedGames, groupedGames, rootFilteredAndSortedGames, vaultRendered>>

bootVars == <<storage, bootState, bootValues, storedLinks>>

queryVars == <<viewAppId, fetches, issued, latestResult>>

gwVars == <<gwEndpoint, gwResponse, gwUpstream, gwConfigs>>

passVars == <<passGames, passSteamId, passValidating, passMasteredAppIds, passRun>>

fanVars == <<fanGames, fanSteamId, fanValidating, fanPasses>>

batchVars == <<batchGames, batchFailing, batchMeta, batchMetaAtStart, batchScanning, batchGenres, batchLsGenres, batchRun>>

groupVars == <<groupView, groupMode, groupMastered, groupResult, groupDone>>

acctVars == <<acctSteamId, acctGames, acctMasteredAppIds, acctPasses, acctVerified>>

noteVars == <<noteGuide, notes, noteStorage, noteTimer, noteEdited, noteEdits>>

vars == <<aggVars, hookVars, rootVars, resVars, scanVars, discVars, vaultVars, bootVars, queryVars, gwVars, passVars, fanVars, batchVars, groupVars, acctVars, noteVars>>

\* What each component leaves alone: the variables of the other components.
aggOthers == <<hookVars, rootVars, resVars, scanVars, discVars, vaultVars, bootVars, queryVars, gwVars, passVars, fanVars, batchVars, groupVars, acctVars, noteVars>>

hookOthers == <<aggVars, rootVars, resVars, scanVars, discVars, vaultVars, bootVars, queryVars, gwVars, passVars, fanVars, batchVars, groupVars, acctVars, noteVars>>

rootOthers == <<aggVars, hookVars, resVars, scanVars, discVars, vaultVars, bootVars, queryVars, gwVars, passVars, fanVars, batchVars, groupVars, acctVars, noteVars>>

resOthers == <<aggVars, hookVars, rootVars, scanVars, discVars, vaultVars, bootVars, queryVars, gwVars, passVars, fanVars, batchVars, groupVars, acctVars, noteVars>>

scanOthers == <<aggVars, hookVars, rootVars, resVars, discVars, vaultVars, bootVars, queryVars, gwVars, passVars, fanVars, batchVars, groupVars, acctVars, noteVars>>

discOthers == <<aggVars, hookVars, rootVars, resVars, scanVars, vaultVars, bootVars, queryVars, gwVars, passVars, fanVars, batchVars, groupVars, acctVars, noteVars>>

vaultOthers == <<aggVars, hookVars, rootVars, resVars, scanVars, discVars, bootVars, queryVars, gwVars, passVars, fanVars, batchVars, groupVars, acctVars, noteVars>>

bootOthers == <<aggVars, hookVars, rootVars, resVars, scanVars, discVars, vaultVars, queryVars, gwVars, passVars, fanVars, batchVars, groupVars, acctVars, noteVars>>

\* The query changes work on the state of the hook; they leave the gateway alone.
queryOthers == <<STEAM_API_KEY, upstream, response, resPhase, aggVars, hookVars, rootVars, scanVars, discVars, vaultVars, bootVars, gwVars, passVars, fanVars, batchVars, groupVars, acctVars, noteVars>>

gwOthers == <<upstream, response, achievements, loading, error, resPhase, aggVars, hookVars, rootVars, scanVars, discVars, vaultVars, bootVars, queryVars, passVars, fanVars, batchVars, groupVars, acctVars, noteVars>>

passOthers == <<aggVars, hookVars, rootVars, resVars, scanVars, discVars, vaultVars, bootVars, queryVars, gwVars, fanVars, batchVars, groupVars, acctVars, noteVars>>

fanOthers == <<aggVars, hookVars, rootVars, resVars, scanVars, discVars, vaultVars, bootVars, queryVars, gwVars, passVars, batchVars, groupVars, acctVars, noteVars>>

batchOthers == <<aggVars, hookVars, rootVars, resVars, scanVars, discVars, vaultVars, bootVars, queryVars, gwVars, passVars, fanVars, groupVars, acctVars, noteVars>>

groupOthers == <<aggVars, hookVars, rootVars, resVars, scanVars, discVars, vaultVars, bootVars, queryVars, gwVars, passVars, fanVars, batchVars, acctVars, noteVars>>

acctOthers == <<aggVars, hookVars, rootVars, resVars, scanVars, discVars, vaultVars, bootVars, queryVars, gwVars, passVars, fanVars, batchVars, groupVars, noteVars>>

noteOthers == <<aggVars, hookVars, rootVars, resVars, scanVars, discVars, vaultVars, bootVars, queryVars, gwVars, passVars, fanVars, batchVars, groupVars, acctVars>>

----------------------------------------------------------------------------
(* Bounds of the model *)

MaxPlaytime == 2
MaxRecent == 1
\* the longest player-achievement list upstream answers with
MaxAchievements == 2
\* the most verifyMastery invocations in flight at once
MaxPasses == 2
\* the most achievements of the game the resolver is asked about
MaxRecords == 3
\* the number of games in the library that is scanned
MaxLibrary == 2
\* the most invocations of scanLibrary in a behaviour
MaxScanCalls == 2
\* the number of games the randomizer draws from
MaxDiscGames == 3
\* the longest games list of the vault
MaxVaultGames == 3
\* the most fetches the achievement view starts in a behaviour
MaxFetches == 3
\* the most configuration requests the gateway receives in a behaviour
MaxConfigs == 3
\* the largest library a single classifier pass is followed on
MaxPassGames == 21
\* the most classifier passes that run at the same time
MaxFanPasses == 6
\* the largest library a single scan is followed on
MaxScanGames == 52
\* the longest sequence of games that is grouped
MaxGroupGames == 3
\* the most classifier passes running at once while the account changes
MaxAccountPasses == 2
\* the most edits of notes in a behaviour
MaxNoteEdits == 3

----------------------------------------------------------------------------
(* Library aggregation: src/src/App.tsx, lines 91-123 *)

SpacewarId == 480

\* The game ids of the model: the pseudo-game and one ordinary game.
AggGameIds == {SpacewarId, 570}

\* The name upstream reports for a game.
UpstreamName(id) == IF id = SpacewarId THEN "Spacewar" ELSE "Dota 2"

Max(a, b) == IF a >= b THEN a ELSE b

\* A game as upstream reports it.
UpstreamGames ==
    { [appid |-> id, name |-> UpstreamName(id), playtime_forever |-> p, playtime_2weeks |-> w] :
        id \in AggGameIds, p \in 0..MaxPlaytime, w \in 0..MaxRecent }

\* The lists upstream can answer with: no game id occurs twice.
UpstreamLists ==
    { <<>> } \cup { <<g>> : g \in UpstreamGames }
      \cup { <<p[1], p[2]>> : p \in { q \in UpstreamGames \X UpstreamGames : q[1].appid # q[2].appid } }

NoGame == [appid |-> 0]

\* new Map(list.map(g => [g.appid, g])).get(id): the last entry of that id.
RecentGamesMapGet(recent, id) ==
    LET hits == { i \in DOMAIN recent : recent[i].appid = id }
    IN  IF hits = {} THEN NoGame
        ELSE recent[CHOOSE i \in hits : \A j \in hits : j <= i]

\* rawGames.findIndex(g => g.appid === id): the first index, 0 for -1.
FindIndex(list, id) ==
    LET hits == { i \in DOMAIN list : list[i].appid = id }
    IN  IF hits = {} THEN 0
        ELSE CHOOSE i \in hits : \A j \in hits : i <= j

\* A plausible slip: the totals of the two sources are added up.
SyncSpacewarAdd(raw, recent) ==
    LET recentSpacewar == RecentGamesMapGet(recent, SpacewarId)
        idx == FindIndex(raw, SpacewarId)
    IN  IF idx # 0
        THEN IF recentSpacewar # NoGame
             THEN [raw EXCEPT
                     ![idx].playtime_forever = raw[idx].playtime_forever + recentSpacewar.playtime_forever,
                     ![idx].playtime_2weeks = recentSpacewar.playtime_2weeks]
             ELSE raw
        ELSE Append(raw, [appid |-> SpacewarId, name |-> "Spacewar",
                          playtime_forever |-> IF recentSpacewar # NoGame THEN recentSpacewar.playtime_forever ELSE 0,
                          playtime_2weeks |-> IF recentSpacewar # NoGame THEN recentSpacewar.playtime_2weeks ELSE 0])

\* A plausible slip: the synthesized entry does not copy the recent playtime.
SyncSpacewarZero(raw, recent) ==
    LET recentSpacewar == RecentGamesMapGet(recent, SpacewarId)
        idx == FindIndex(raw, SpacewarId)
    IN  IF idx # 0
        THEN IF recentSpacewar # NoGame
             THEN [raw EXCEPT
                     ![idx].playtime_forever = Max(raw[idx].playtime_forever, recentSpacewar.playtime_forever),
                     ![idx].playtime_2weeks = recentSpacewar.playtime_2weeks]
             ELSE raw
        ELSE Append(raw, [appid |-> SpacewarId, name |-> "Spacewar",
                          playtime_forever |-> 0,
                          playtime_2weeks |-> 0])

\* A plausible slip: the recent total replaces the owned one instead of the max.
SyncSpacewarNoMax(raw, recent) ==
    LET recentSpacewar == RecentGamesMapGet(recent, SpacewarId)
        idx == FindIndex(raw, SpacewarId)
    IN  IF idx # 0
        THEN IF recentSpacewar # NoGame
             THEN [raw EXCEPT
                     ![idx].playtime_forever = recentSpacewar.playtime_forever,
                     ![idx].playtime_2weeks = recentSpacewar.playtime_2weeks]
             ELSE raw
        ELSE Append(raw, [appid |-> SpacewarId, name |-> "Spacewar",
                          playtime_forever |-> IF recentSpacewar # NoGame THEN recentSpacewar.playtime_forever ELSE 0,
                          playtime_2weeks |-> IF recentSpacewar # NoGame THEN recentSpacewar.playtime_2weeks ELSE 0])

\* "Sync and Force include Spacewar": lines 101-118, the array after the in-place
\* update of the owned entry or the push of a synthesized one.
SyncSpacewar(raw, recent) ==
    LET recentSpacewar == RecentGamesMapGet(recent, SpacewarId)
        idx == FindIndex(raw, SpacewarId)
    IN  IF idx # 0
        THEN IF recentSpacewar # NoGame
             THEN [raw EXCEPT
                     ![idx].playtime_forever = Max(raw[idx].playtime_forever, recentSpacewar.playtime_forever),
                     ![idx].playtime_2weeks = recentSpacewar.playtime_2weeks]
             ELSE raw
        ELSE Append(raw, [appid |-> SpacewarId, name |-> "Spacewar",
                          playtime_forever |-> IF recentSpacewar # NoGame THEN recentSpacewar.playtime_forever ELSE 0,
                          playtime_2weeks |-> IF recentSpacewar # NoGame THEN recentSpacewar.playtime_2weeks ELSE 0])

\* line 120: rawGames.map(g => g.appid === 480 ? { ...g, name: 'ELDEN RING COOP' } : g)
OverrideName(raw) ==
    [ i \in DOMAIN raw |->
        IF raw[i].appid = SpacewarId THEN [raw[i] EXCEPT !.name = "ELDEN RING COOP"] ELSE raw[i] ]

\* The two upstream answers are drawn here; the actions run the queryFn on them.
AggStart ==
    /\ ownedGames \in UpstreamLists
    /\ recentGames \in UpstreamLists
    /\ rawGames = <<>>
    /\ gamesData = <<>>
    /\ aggPrev = <<>>
    /\ aggOp = "none"

\* The queryFn on fresh responses of the two endpoints.
FetchGames ==
    /\ aggOp = "none"
    /\ rawGames' = SyncSpacewar(ownedGames, recentGames)
    /\ gamesData' = OverrideName(rawGames')
    /\ aggPrev' = gamesData
    /\ aggOp' = "fetch"
    /\ UNCHANGED <<ownedGames, recentGames, aggOthers>>

\* The body of the queryFn a second time on the same pair of response objects
\* (the owned array as the first run left it).
AggregateAgain ==
    /\ aggOp = "fetch"
    /\ rawGames' = SyncSpacewar(rawGames, recentGames)
    /\ gamesData' = OverrideName(rawGames')
    /\ aggPrev' = gamesData
    /\ aggOp' = "again"
    /\ UNCHANGED <<ownedGames, recentGames, aggOthers>>

\* The body of the queryFn on the aggregated list and an empty recently-played list.
ReaggregateEmpty ==
    /\ aggOp = "fetch"
    /\ rawGames' = SyncSpacewar(gamesData, <<>>)
    /\ gamesData' = OverrideName(rawGames')
    /\ aggPrev' = gamesData
    /\ aggOp' = "empty"
    /\ UNCHANGED <<ownedGames, recentGames, aggOthers>>

\* The aggregation at rest, while another component is looked at.
AggIdle ==
    /\ ownedGames = <<>>
    /\ recentGames = <<>>
    /\ rawGames = <<>>
    /\ gamesData = <<>>
    /\ aggPrev = <<>>
    /\ aggOp = "none"

AggNext ==
    \/ FetchGames
    \/ AggregateAgain
    \/ ReaggregateEmpty

----------------------------------------------------------------------------
(* The mastery hook: src/src/hooks/useMastery.ts *)

\* line 31: sortedByPlaytime.slice(0, 20)
CheckLimit == 20

\* The account ids of the model; "" is the logged-out steamId.
SteamIds == {"", "A", "B"}

\* The games the hook is given: two games, the first with the higher playtime.
HookGame(id) == [appid |-> id, playtime_forever |-> IF id = 10 THEN 2 ELSE 1]

HookGameLists ==
    { <<>>, <<HookGame(10)>>, <<HookGame(20)>>,
      <<HookGame(10), HookGame(20)>>, <<HookGame(20), HookGame(10)>> }

Elems(seq) == { seq[i] : i \in DOMAIN seq }

\* The insertion of g into a list sorted by playtime_forever descending, behind the
\* entries that compare equal (Array.prototype.sort is stable).
InsertByPlaytime(sorted, g) ==
    LET before == { i \in DOMAIN sorted : sorted[i].playtime_forever >= g.playtime_forever }
        k == Cardinality(before)
    IN  SubSeq(sorted, 1, k) \o <<g>> \o SubSeq(sorted, k + 1, Len(sorted))

RECURSIVE SortByPlaytime(_)
\* line 30: [...games].sort((a, b) => b.playtime_forever - a.playtime_forever)
SortByPlaytime(list) ==
    IF list = <<>> THEN <<>>
    ELSE InsertByPlaytime(SortByPlaytime(SubSeq(list, 1, Len(list) - 1)), list[Len(list)])

\* slice(0, n)
Slice(list, n) == SubSeq(list, 1, IF Len(list) < n THEN Len(list) ELSE n)

\* A plausible slip: the candidates are taken in list order, without the sort.
CheckListInListOrder(list) ==
    LET top == Slice(list, CheckLimit)
    IN  [ i \in DOMAIN top |-> top[i].appid ]

\* lines 30-31: the appids of the candidates, in the order they are checked.
CheckList(list) ==
    LET top == Slice(SortByPlaytime(list), CheckLimit)
    IN  [ i \in DOMAIN top |-> top[i].appid ]

\* What the awaited axios.get of a candidate settles with: it throws, or it answers
\* with res.data.achievements.playerstats (success flag, achievement list or none).
\* The achievement lists are taken with the achieved entries first: the classifier
\* only counts them.
AchievedLists ==
    { [ i \in 1..n |-> IF i <= k THEN 1 ELSE 0 ] : n \in 0..MaxAchievements, k \in 0..MaxAchievements } 

\* The lists of a body flagged unsuccessful: the empty list of the gateway's default,
\* and lists whose entries are all achieved (a flagged body is never counted).
UnsuccessfulLists == { l \in AchievedLists : \A i \in DOMAIN l : l[i] = 1 }

ResolverOutcomes ==
    { [threw |-> TRUE, success |-> FALSE, hasList |-> FALSE, achievements |-> <<>>] }
      \cup { [threw |-> FALSE, success |-> ok, hasList |-> FALSE, achievements |-> <<>>] : ok \in BOOLEAN }
      \cup { [threw |-> FALSE, success |-> TRUE, hasList |-> TRUE, achievements |-> l] : l \in AchievedLists }
      \cup { [threw |-> FALSE, success |-> FALSE, hasList |-> TRUE, achievements |-> l] : l \in UnsuccessfulLists }

\* line 40 / 41: playerstats.achievements.length and the count of achieved === 1
TotalCount(o) == Len(o.achievements)

AchievedCount(o) == Cardinality({ i \in DOMAIN o.achievements : o.achievements[i] = 1 })

\* A plausible slip: the success flag of the body is not looked at.
HasAchievementsIgnoreSuccess(o) == ~o.threw /\ o.hasList /\ TotalCount(o) > 0

\* line 39: playerstats?.success !== false && playerstats?.achievements?.length > 0
HasAchievements(o) == ~o.threw /\ o.success /\ o.hasList /\ TotalCount(o) > 0

\* line 43: total > 0 && achieved / total === 1
IsMasteredOutcome(o) == HasAchievements(o) /\ TotalCount(o) > 0 /\ AchievedCount(o) = TotalCount(o)

\* line 44: if (!mastered.includes(game.appid)) mastered.push(game.appid)
PushMastered(mastered, appid, o) ==
    IF IsMasteredOutcome(o) /\ appid \notin Elems(mastered) THEN Append(mastered, appid) ELSE mastered

HookStart ==
    /\ games = <<>>
    /\ steamId = ""
    /\ masteredAppIds = <<>>
    /\ isValidating = FALSE
    /\ passes = EmptyBag

HookIdle == HookStart

\* lines 10-14, 21, 30-36: a render with a changed games list or steamId runs the
\* effect: verifyMastery returns at once without games or steamId, and otherwise sets
\* the validating flag, copies the mastered array of this render, and awaits the
\* resolver response for the first candidate.
Rerender ==
    \E g \in HookGameLists, s \in SteamIds :
        /\ <<g, s>> # <<games, steamId>>
        /\ games' = g
        /\ steamId' = s
        /\ IF Len(g) = 0 \/ s = ""
           THEN UNCHANGED <<isValidating, passes>>
           ELSE /\ BagCardinality(passes) < MaxPasses
                /\ isValidating' = TRUE
                /\ passes' = passes (+) SetToBag({[account |-> s, checkList |-> CheckList(g),
                                                   idx |-> 1, mastered |-> masteredAppIds]})
        /\ UNCHANGED <<masteredAppIds, hookOthers>>

\* lines 33-50: the response for a candidate that is not the last one arrives; the
\* pass classifies it and awaits the next candidate.
ResolverResponse ==
    \E p \in BagToSet(passes), o \in ResolverOutcomes :
            /\ p.idx < Len(p.checkList)
            /\ passes' = (passes (-) SetToBag({p})) (+) SetToBag({
                            [p EXCEPT
                               !.mastered = PushMastered(p.mastered, p.checkList[p.idx], o),
                               !.idx = p.idx + 1]})
            /\ UNCHANGED <<games, steamId, masteredAppIds, isValidating, hookOthers>>

\* lines 33-52: the response for the last candidate arrives; the pass classifies it,
\* stores its array and clears the validating flag.
PassDone ==
    \E p \in BagToSet(passes), o \in ResolverOutcomes :
            /\ p.idx = Len(p.checkList)
            /\ masteredAppIds' = PushMastered(p.mastered, p.checkList[p.idx], o)
            /\ isValidating' = FALSE
            /\ passes' = passes (-) SetToBag({p})
            /\ UNCHANGED <<games, steamId, hookOthers>>

HookNext ==
    \/ Rerender
    \/ ResolverResponse
    \/ PassDone

----------------------------------------------------------------------------
(* The classifier of the root component: src/src/App.tsx, lines 186-222 *)

\* line 190: sortedByPlaytime.slice(0, 15)
TargetLimit == 15

\* line 191: the game that is always a target when it is in the library
EldenRingId == 1245620

\* lines 189-194: the appids of the targets, in the order they are checked.
Targets(list) ==
    LET top == Slice(SortByPlaytime(list), TargetLimit)
        ids == [ i \in DOMAIN top |-> top[i].appid ]
    IN  IF EldenRingId \notin Elems(ids) /\ EldenRingId \in { list[i].appid : i \in DOMAIN list }
        THEN Append(ids, EldenRingId)
        ELSE ids

\* A plausible slip: the upper end of the hunter band is not excluded.
IsHunterOutcomeNoUpper(o) ==
    HasAchievements(o) /\ TotalCount(o) > 0 /\ 2 * AchievedCount(o) >= TotalCount(o)

\* lines 208-211: total > 0, ratio = achieved / total, ratio >= 0.5 && ratio < 1
IsHunterOutcome(o) ==
    /\ HasAchievements(o)
    /\ TotalCount(o) > 0
    /\ 2 * AchievedCount(o) >= TotalCount(o)
    /\ AchievedCount(o) < TotalCount(o)

\* line 210: if (ratio === 1) mastered.push(game.appid)
RootPushMastered(mastered, appid, o) ==
    IF IsMasteredOutcome(o) THEN Append(mastered, appid) ELSE mastered

\* line 211: if (ratio >= 0.5 && ratio < 1) hunters.push(game.appid)
RootPushHunter(hunters, appid, o) ==
    IF IsHunterOutcome(o) THEN Append(hunters, appid) ELSE hunters

\* The games lists of the root component in the model: none, one game, and two
\* games with the lower playtime first.
RootGameLists == { <<>>, <<HookGame(10)>>, <<HookGame(20), HookGame(10)>> }

NoPass == [targets |-> <<>>, outcomes |-> <<>>]

RootStart ==
    /\ rootGames = <<>>
    /\ rootMasteredAppIds = <<>>
    /\ hunterTargets = <<>>
    /\ rootPasses = EmptyBag
    /\ rootDone = NoPass

RootIdle == RootStart

\* lines 186-201, 221-222: a render with a changed games list runs the effect:
\* verifyMastery returns at once without games, and otherwise starts with two empty
\* arrays and awaits the resolver response for the first target.
RootGamesChange ==
    \E g \in RootGameLists :
        /\ g # rootGames
        /\ rootGames' = g
        /\ IF Len(g) = 0
           THEN UNCHANGED rootPasses
           ELSE /\ BagCardinality(rootPasses) < MaxPasses
                /\ rootPasses' = rootPasses (+) SetToBag({[targets |-> Targets(g), idx |-> 1,
                                                           mastered |-> <<>>, hunters |-> <<>>,
                                                           outcomes |-> <<>>]})
        /\ rootDone' = NoPass
        /\ UNCHANGED <<rootMasteredAppIds, hunterTargets, rootOthers>>

\* lines 199-217: the response for a target that is not the last one arrives; the
\* pass classifies it and awaits the next target.
RootResolverResponse ==
    \E p \in BagToSet(rootPasses), o \in ResolverOutcomes :
            /\ p.idx < Len(p.targets)
            /\ rootPasses' = (rootPasses (-) SetToBag({p})) (+) SetToBag({
                                [p EXCEPT
                                   !.mastered = RootPushMastered(p.mastered, p.targets[p.idx], o),
                                   !.hunters = RootPushHunter(p.hunters, p.targets[p.idx], o),
                                   !.outcomes = Append(p.outcomes, o),
                                   !.idx = p.idx + 1]})
            /\ rootDone' = NoPass
            /\ UNCHANGED <<rootGames, rootMasteredAppIds, hunterTargets, rootOthers>>

\* lines 199-219: the response for the last target arrives; the pass classifies it
\* and stores its two arrays (the two state updates are applied in one render).
RootPassDone ==
    \E p \in BagToSet(rootPasses), o \in ResolverOutcomes :
            /\ p.idx = Len(p.targets)
            /\ rootMasteredAppIds' = RootPushMastered(p.mastered, p.targets[p.idx], o)
            /\ hunterTargets' = RootPushHunter(p.hunters, p.targets[p.idx], o)
            /\ rootDone' = [targets |-> p.targets, outcomes |-> Append(p.outcomes, o)]
            /\ rootPasses' = rootPasses (-) SetToBag({p})
            /\ UNCHANGED <<rootGames, rootOthers>>

RootNext ==
    \/ RootGamesChange
    \/ RootResolverResponse
    \/ RootPassDone

----------------------------------------------------------------------------
(* Claims about the mastery hook *)

\* C4 as stated: within a session the mastered set never shrinks, also when passes
\* overlap: every id that was in the mastered set is still in it after any step.
C4_MasteredNeverShrinks ==
    [][Elems(masteredAppIds) \subseteq Elems(masteredAppIds')]_vars

----------------------------------------------------------------------------
(* The achievements endpoint of the gateway: src/unnamed/part_001, lines 163-202 *)

ApiName(i) == <<"apiname", i>>

DisplayName(i) == <<"displayName", i>>

\* The player-achievement lists upstream answers with: the first n achievements of
\* the game, each locked (0) or unlocked (1).
PlayerLists ==
    UNION { { [ i \in 1..n |-> [apiname |-> ApiName(i), achieved |-> f[i]] ] : f \in [1..n -> {0, 1}] } :
              n \in 0..MaxRecords }

\* The schema lists upstream answers with: entries for the first k achievements.
SchemaLists ==
    { [ i \in 1..k |-> [name |-> ApiName(i), displayName |-> DisplayName(i)] ] : k \in 0..MaxRecords }

\* The percent field of a global-stats entry as upstream sends it: a number, a
\* numeric string, a string that is no number, or no field at all.
RawPercents ==
    { [kind |-> "num", val |-> v] : v \in {50, 80, 90} }
      \cup { [kind |-> "str", val |-> 90], [kind |-> "text", val |-> 0], [kind |-> "none", val |-> 0] }

NoEntry == [kind |-> "absent", val |-> 0]

RECURSIVE GlobalEntries(_, _)
\* The global-stats list of a choice of percent fields: the entries, in the order of
\* the achievements, of those that have one.
GlobalEntries(f, n) ==
    IF n = 0 THEN <<>>
    ELSE IF f[n] = NoEntry THEN GlobalEntries(f, n - 1)
         ELSE Append(GlobalEntries(f, n - 1), [name |-> ApiName(n), percent |-> f[n]])

GlobalLists ==
    { GlobalEntries(f, MaxRecords) : f \in [1..MaxRecords -> RawPercents \cup {NoEntry}] }

\* playerstats of a body: the success flag, the achievement list if there is one,
\* the error text if there is one ("" for none).
Playerstats(ok, has, list, err) ==
    [success |-> ok, hasList |-> has, achievements |-> list, error |-> err]

\* How the player-achievement request settles: fulfilled with a body (a list, no
\* list, or an error body sent with a 2xx status), or rejected with the
\* private-profile error body, another error body, or no response at all.
AchSettled ==
    { [status |-> "fulfilled", data |-> Playerstats(TRUE, TRUE, l, ""), reason |-> ""] : l \in PlayerLists }
      \cup { [status |-> "fulfilled", data |-> Playerstats(TRUE, FALSE, <<>>, ""), reason |-> ""],
             [status |-> "fulfilled", data |-> Playerstats(FALSE, FALSE, <<>>, "Requested app has no stats"), reason |-> ""],
             [status |-> "rejected", data |-> Playerstats(FALSE, FALSE, <<>>, ""), reason |-> "Profile is not public"],
             [status |-> "rejected", data |-> Playerstats(FALSE, FALSE, <<>>, ""), reason |-> "Requested app has no stats"],
             [status |-> "rejected", data |-> Playerstats(FALSE, FALSE, <<>>, ""), reason |-> "Network Error"] }

SchemaSettled ==
    { [status |-> "fulfilled", data |-> l] : l \in SchemaLists }
      \cup { [status |-> "rejected", data |-> <<>>] }

GlobalSettled ==
    { [status |-> "fulfilled", data |-> l] : l \in GlobalLists }
      \cup { [status |-> "rejected", data |-> <<>>] }

NoUpstream == [called |-> FALSE]

NoResponse == [status |-> 0]

\* line 189: { playerstats: { achievements: [], success: false } }
DefaultAchievements == Playerstats(FALSE, TRUE, <<>>, "")

\* line 182: { playerstats: { success: false, error: 'Private Profile' } }
PrivateAchievements == Playerstats(FALSE, FALSE, <<>>, "Private Profile")

\* lines 183, 190: { game: { availableGameStats: { achievements: [] } } }
DefaultSchema == <<>>

\* lines 184, 191: { achievementpercentages: { achievements: [] } }
DefaultGlobalStats == <<>>

\* A plausible slip: the private-profile error body is not recognised.
IsPrivateProfileNever(ach) == FALSE

\* line 179: errorReason?.playerstats?.error === 'Profile is not public'
IsPrivateProfile(ach) == ach.status = "rejected" /\ ach.reason = "Profile is not public"

\* lines 183, 190
SchemaPart(schema) == IF schema.status = "fulfilled" THEN schema.data ELSE DefaultSchema

\* lines 184, 191
GlobalStatsPart(global) == IF global.status = "fulfilled" THEN global.data ELSE DefaultGlobalStats

\* A plausible slip: a rejected player-achievement request is answered with an
\* error status.
AchievementsResponseStrict(ach, schema, global, unexpected) ==
    IF unexpected \/ ach.status = "rejected"
    THEN [status |-> 500, body |-> [error |-> "Failed to fetch achievements"]]
    ELSE [status |-> 200,
          body |-> [achievements |-> ach.data,
                    schema |-> SchemaPart(schema),
                    globalStats |-> GlobalStatsPart(global)]]

\* lines 164-201: the handler's answer, given how the three requests settled and
\* whether an exception was thrown inside the try block.
AchievementsResponse(ach, schema, global, unexpected) ==
    IF unexpected
    THEN [status |-> 200,
          body |-> [achievements |-> DefaultAchievements,
                    schema |-> DefaultSchema,
                    globalStats |-> DefaultGlobalStats]]
    ELSE IF IsPrivateProfile(ach)
    THEN [status |-> 200,
          body |-> [achievements |-> PrivateAchievements,
                    schema |-> SchemaPart(schema),
                    globalStats |-> GlobalStatsPart(global)]]
    ELSE [status |-> 200,
          body |-> [achievements |-> IF ach.status = "fulfilled" THEN ach.data ELSE DefaultAchievements,
                    schema |-> SchemaPart(schema),
                    globalStats |-> GlobalStatsPart(global)]]

\* line 55: res.status(401).json({ error: 'Steam API Key not configured' })
Unauthenticated == [status |-> 401, body |-> [error |-> "Steam API Key not configured"]]

\* The credentials a configuration request carries ("" for none).
ApiKeys == {"", "KEY1", "KEY2"}

\* lines 40-49: POST /api/config; an empty key is rejected and changes nothing.
\* It is followed here up to the moment the achievements request is handled.
PostConfig ==
    \E apiKey \in ApiKeys :
        /\ resPhase \in {"idle", "requested"}
        /\ STEAM_API_KEY' = IF apiKey = "" THEN STEAM_API_KEY ELSE apiKey
        /\ UNCHANGED <<upstream, response, achievements, loading, error, resPhase, resOthers>>

\* lines 52-58, 163: checkApiKey turns the request down before any upstream request.
GatewayUnauthenticated ==
    /\ resPhase = "requested"
    /\ STEAM_API_KEY = ""
    /\ response' = Unauthenticated
    /\ resPhase' = "answered"
    /\ UNCHANGED <<STEAM_API_KEY, upstream, achievements, loading, error, resOthers>>

\* lines 163-202: the handler issues the three upstream requests, waits for all of
\* them to settle and answers.
GatewayAchievements ==
    /\ resPhase = "requested"
    /\ STEAM_API_KEY # ""
    /\ \E ach \in AchSettled, schema \in SchemaSettled, global \in GlobalSettled, unexpected \in BOOLEAN :
        /\ upstream' = [called |-> TRUE, ach |-> ach, schema |-> schema, global |-> global,
                        unexpected |-> unexpected]
        /\ response' = AchievementsResponse(ach, schema, global, unexpected)
        /\ resPhase' = "answered"
        /\ UNCHANGED <<STEAM_API_KEY, achievements, loading, error, resOthers>>

----------------------------------------------------------------------------
(* The resolver hook: src/src/context/NotificationContext.tsx, useAchievements *)

\* The value of the error state while there is no error (null).
Null == ""

\* Not-a-number, the result of parseFloat on a string that is no number. Every
\* percent upstream sends is at least 0.
NaN == -1

\* parseFloat of the percent field of a found entry that is no number; the field
\* missing (or empty) is replaced by '0' first (line 147 of the hook).
ParseFloat(raw) ==
    CASE raw.kind = "str" -> raw.val
      [] raw.kind = "text" -> NaN
      [] OTHER -> 0

\* Array.prototype.find by name: the index of the first entry, 0 for undefined.
FindByName(list, name) ==
    IF \E i \in 1..Len(list) : list[i].name = name
    THEN CHOOSE i \in 1..Len(list) :
             list[i].name = name /\ \A j \in 1..(i - 1) : list[j].name # name
    ELSE 0

\* line 143: schema?.displayName || pa.apiname
MergedName(schemaList, pa) ==
    LET i == FindByName(schemaList, pa.apiname)
    IN  IF i = 0 THEN pa.apiname ELSE schemaList[i].displayName

\* line 147: typeof global?.percent === 'number' ? global.percent
\*           : parseFloat(global?.percent || '0')
MergedPercent(globalList, pa) ==
    LET i == FindByName(globalList, pa.apiname)
    IN  IF i = 0 THEN 0
        ELSE IF globalList[i].percent.kind = "num" THEN globalList[i].percent.val
        ELSE ParseFloat(globalList[i].percent)

\* lines 138-150: one merged record per player record.
MergeAchievements(playerList, schemaList, globalList) ==
    [ i \in 1..Len(playerList) |->
        [apiname |-> playerList[i].apiname,
         achieved |-> playerList[i].achieved,
         name |-> MergedName(schemaList, playerList[i]),
         percent |-> MergedPercent(globalList, playerList[i])] ]

\* line 166: x || 0 on a percent; 0 and NaN are falsy.
OrZero(x) == IF x = NaN THEN 0 ELSE x

\* A plausible slip: rarest first within a group.
CompareAscending(a, b) ==
    IF a.achieved # b.achieved
    THEN a.achieved - b.achieved
    ELSE OrZero(a.percent) - OrZero(b.percent)

\* lines 159-167: the comparator of the sort.
Compare(a, b) ==
    IF a.achieved # b.achieved
    THEN a.achieved - b.achieved
    ELSE OrZero(b.percent) - OrZero(a.percent)

\* The record e put into a sorted list behind every record that does not sort
\* after it.
InsertSorted(sorted, e) ==
    LET k == Cardinality({ i \in 1..Len(sorted) : Compare(sorted[i], e) <= 0 })
    IN  SubSeq(sorted, 1, k) \o <<e>> \o SubSeq(sorted, k + 1, Len(sorted))

RECURSIVE SortAchievements(_)
\* line 159: merged.sort(...), a stable sort.
SortAchievements(list) ==
    IF Len(list) = 0 THEN <<>>
    ELSE InsertSorted(SortAchievements(SubSeq(list, 1, Len(list) - 1)), list[Len(list)])

\* lines 132-134: the three lists the hook reads out of a body, [] for a missing one.
PlayerAchievements(body) ==
    IF body.achievements.hasList THEN body.achievements.achievements ELSE <<>>

\* The games the resolver is asked about.
AppIds == {440}

\* lines 113-125: a game is selected; the effect starts a fetch. (With no game
\* selected it issues no request; that branch is not followed.)
FetchAchievements ==
    \E appId \in AppIds :
        /\ resPhase = "idle"
        /\ loading' = TRUE
        /\ error' = Null
        /\ resPhase' = "requested"
        /\ UNCHANGED <<STEAM_API_KEY, upstream, response, achievements, resOthers>>

\* lines 123-175: the answer arrives. A status outside 2xx makes axios throw (the
\* catch block); an error in playerstats empties the list; otherwise the merged,
\* sorted list is stored. finally: loading is false.
ClientResponse ==
    /\ resPhase = "answered"
    /\ IF response.status # 200
       THEN /\ error' = "Failed to load achievements"
            /\ UNCHANGED achievements
       ELSE IF response.body.achievements.error # ""
       THEN /\ error' = response.body.achievements.error
            /\ achievements' = <<>>
       ELSE /\ achievements' = SortAchievements(MergeAchievements(PlayerAchievements(response.body),
                                                                  response.body.schema,
                                                                  response.body.globalStats))
            /\ UNCHANGED error
    /\ loading' = FALSE
    /\ resPhase' = "done"
    /\ UNCHANGED <<STEAM_API_KEY, upstream, response, resOthers>>

ResolverStart ==
    /\ STEAM_API_KEY = ""
    /\ upstream = NoUpstream
    /\ response = NoResponse
    /\ achievements = <<>>
    /\ loading = FALSE
    /\ error = Null
    /\ resPhase = "idle"

ResolverIdle == ResolverStart

ResolverNext ==
    \/ PostConfig
    \/ FetchAchievements
    \/ GatewayUnauthenticated
    \/ GatewayAchievements
    \/ ClientResponse

----------------------------------------------------------------------------
(* Claims about the achievements endpoint and the resolver hook *)

\* The gateway has answered the achievements request.
Answered == resPhase \in {"answered", "done"}

\* The handler ran (the request passed checkApiKey) and no exception was thrown in it.
HandledNormally == Answered /\ upstream.called /\ ~upstream.unexpected

PrivateProfileFailure ==
    /\ HandledNormally
    /\ upstream.ach.status = "rejected"
    /\ upstream.ach.reason = "Profile is not public"

\* C7: when the player-achievement request fails with the error body "Profile is
\* not public" (and the handler runs to its answer), the answer carries the
\* private-profile tag and no achievement list, whether the schema and global-stats
\* requests succeeded or failed, and the parts that did succeed are included; once
\* the hook has processed the answer its error is the tag and its list is empty.
C7_PrivateProfileShortCircuit ==
    PrivateProfileFailure =>
        /\ response.status = 200
        /\ response.body.achievements.error = "Private Profile"
        /\ ~response.body.achievements.success
        /\ PlayerAchievements(response.body) = <<>>
        /\ upstream.schema.status = "fulfilled" => response.body.schema = upstream.schema.data
        /\ upstream.schema.status = "rejected" => response.body.schema = <<>>
        /\ upstream.global.status = "fulfilled" => response.body.globalStats = upstream.global.data
        /\ upstream.global.status = "rejected" => response.body.globalStats = <<>>
        /\ resPhase = "done" => (error = "Private Profile" /\ achievements = <<>> /\ ~loading)

\* C7 happens: a private profile, the schema request succeeded with entries, the
\* global-stats request failed, and the hook has processed the answer.
C7_Witness ==
    /\ PrivateProfileFailure
    /\ resPhase = "done"
    /\ upstream.schema.status = "fulfilled"
    /\ Len(response.body.schema) > 0
    /\ upstream.global.status = "rejected"
    /\ error = "Private Profile"

\* The hook stored a merged list: the answer was a 200 without an error in playerstats.
Resolved ==
    /\ resPhase = "done"
    /\ response.status = 200
    /\ response.body.achievements.error = ""

\* x > y on percents; every comparison with NaN is false.
Greater(x, y) == x # NaN /\ y # NaN /\ x > y

\* C8: in the resolved achievement list every locked achievement precedes every
\* unlocked one, and among achievements with the same achieved-state the global
\* completion percent never increases.
C8_SortOrder ==
    Resolved =>
        \A i, j \in 1..Len(achievements) :
            i < j =>
                /\ ~(achievements[i].achieved = 1 /\ achievements[j].achieved = 0)
                /\ achievements[i].achieved = achievements[j].achieved
                       => ~Greater(achievements[j].percent, achievements[i].percent)

\* C8 happens: the player list [unlocked 80, locked 50, locked 90] was resolved to
\* [locked 90, locked 50, unlocked 80].
C8_Witness ==
    /\ Resolved
    /\ Len(achievements) = 3
    /\ [i \in 1..3 |-> PlayerAchievements(response.body)[i].achieved] = <<1, 0, 0>>
    /\ [i \in 1..3 |-> achievements[i].apiname] = <<ApiName(3), ApiName(2), ApiName(1)>>
    /\ [i \in 1..3 |-> achievements[i].achieved] = <<0, 0, 1>>
    /\ [i \in 1..3 |-> achievements[i].percent] = <<90, 50, 80>>

\* The entries of a list with the given name.
Matching(list, name) == { i \in 1..Len(list) : list[i].name = name }

\* The display name the merge is to give a player record.
ExpectedName(pa) ==
    LET m == Matching(response.body.schema, pa.apiname)
    IN  IF m = {} THEN pa.apiname
        ELSE response.body.schema[CHOOSE i \in m : \A j \in m : i <= j].displayName

\* The percent the merge is to give a player record: the value of the matching
\* global-stats entry, 0 when there is none or its percent is no number.
ExpectedPercent(pa) ==
    LET m == Matching(response.body.globalStats, pa.apiname)
        raw == response.body.globalStats[CHOOSE i \in m : \A j \in m : i <= j].percent
    IN  IF m = {} THEN 0
        ELSE IF raw.kind \in {"num", "str"} THEN raw.val
        ELSE 0

\* C9: the merged list contains exactly one record for each player achievement
\* record and no others; each record's display name is the matching schema entry's
\* display name, or the raw apiname when no schema entry matches, and its percent
\* is the matching global-stats value, or 0 when that entry is missing or
\* non-numeric.
C9_AchievementMerge ==
    Resolved =>
        LET playerList == PlayerAchievements(response.body)
        IN  /\ Len(achievements) = Len(playerList)
            /\ \A i \in 1..Len(playerList) :
                   \E k \in 1..Len(achievements) :
                       /\ achievements[k].apiname = playerList[i].apiname
                       /\ \A l \in 1..Len(achievements) :
                              achievements[l].apiname = playerList[i].apiname => l = k
                       /\ achievements[k].achieved = playerList[i].achieved
                       /\ achievements[k].name = ExpectedName(playerList[i])
                       /\ achievements[k].percent = ExpectedPercent(playerList[i])

\* The answer has the three-part shape, and each part is the upstream data, or an
\* empty, unsuccessful default where the upstream request failed or an exception
\* was thrown.
ThreePartShape ==
    /\ response.status = 200
    /\ DOMAIN response.body = {"achievements", "schema", "globalStats"}
    /\ upstream.called
    /\ IF ~upstream.unexpected /\ upstream.ach.status = "fulfilled"
       THEN response.body.achievements = upstream.ach.data
       ELSE ~response.body.achievements.success /\ PlayerAchievements(response.body) = <<>>
    /\ response.body.schema =
           IF ~upstream.unexpected /\ upstream.schema.status = "fulfilled"
           THEN upstream.schema.data ELSE <<>>
    /\ response.body.globalStats =
           IF ~upstream.unexpected /\ upstream.global.status = "fulfilled"
           THEN upstream.global.data ELSE <<>>

\* C10 as stated: every request to the achievements endpoint is answered with a
\* non-error status and the three-part body, each failed part replaced by its
\* default, for every subset of the upstream requests failing and for any
\* unexpected exception.
C10_AlwaysThreePart == Answered => ThreePartShape

\* C10 amended: every request to the achievements endpoint made while a credential
\* is configured is answered with status 200 and the three-part body, each failed
\* part replaced by its default, for every subset of the upstream requests failing
\* and for any unexpected exception.
C10_ThreePartWhenConfigured == (Answered /\ STEAM_API_KEY # "") => ThreePartShape

\* C10 happens: all three upstream requests failed and the answer is the three
\* defaults with status 200.
C10_Witness ==
    /\ HandledNormally
    /\ upstream.ach.status = "rejected"
    /\ upstream.ach.reason = "Network Error"
    /\ upstream.schema.status = "rejected"
    /\ upstream.global.status = "rejected"
    /\ response.status = 200
    /\ response.body.achievements = DefaultAchievements

----------------------------------------------------------------------------
(* Claims about the classifier of the root component *)

\* The resolver call of a candidate succeeded: it did not throw and the body is not
\* flagged unsuccessful.
CallSucceeded(o) == ~o.threw /\ o.success

AllAchieved(o) ==
    /\ o.hasList
    /\ Len(o.achievements) >= 1
    /\ \A i \in DOMAIN o.achievements : o.achievements[i] = 1

HalfAchieved(o) ==
    /\ o.hasList
    /\ Len(o.achievements) >= 1
    /\ 2 * Cardinality({ i \in DOMAIN o.achievements : o.achievements[i] = 1 }) >= Len(o.achievements)
    /\ \E i \in DOMAIN o.achievements : o.achievements[i] # 1

\* The rule for the candidates of a pass that have been classified, given the
\* responses they got and the two arrays of the pass.
RuleHolds(targets, outcomes, mastered, hunters) ==
    /\ Elems(mastered) \cup Elems(hunters) \subseteq { targets[i] : i \in DOMAIN outcomes }
    /\ \A i \in DOMAIN outcomes :
        /\ targets[i] \in Elems(mastered) <=> (CallSucceeded(outcomes[i]) /\ AllAchieved(outcomes[i]))
        /\ targets[i] \in Elems(hunters) <=> (CallSucceeded(outcomes[i]) /\ HalfAchieved(outcomes[i]))
        /\ (~CallSucceeded(outcomes[i]) \/ ~outcomes[i].hasList \/ Len(outcomes[i].achievements) = 0)
             => targets[i] \notin Elems(mastered) \cup Elems(hunters)

C6_MasteredHunterDisjoint ==
    Elems(rootMasteredAppIds) \cap Elems(hunterTargets) = {}

\* C6 witness: both sets are non-empty while a later pass is still running.
C6_Witness ==
    /\ rootMasteredAppIds # <<>>
    /\ hunterTargets # <<>>
    /\ BagCardinality(rootPasses) = MaxPasses

----------------------------------------------------------------------------
(* Claims about the library aggregation *)

\* The ids of a list, and the entries of an id in a list.
IdsOf(list) == { list[i].appid : i \in DOMAIN list }

EntriesOf(list, id) == { i \in DOMAIN list : list[i].appid = id }

TotalOf(list, id) == list[CHOOSE i \in EntriesOf(list, id) : TRUE].playtime_forever

InBoth == IdsOf(ownedGames) \cap IdsOf(recentGames)

Aggregated == aggOp = "fetch"

C2_PseudoGameSynthesis ==
    (Aggregated /\ SpacewarId \in IdsOf(recentGames) /\ SpacewarId \notin IdsOf(ownedGames)) =>
        /\ Cardinality(EntriesOf(gamesData, SpacewarId)) = 1
        /\ \A i \in EntriesOf(gamesData, SpacewarId) :
             /\ gamesData[i].playtime_forever = TotalOf(recentGames, SpacewarId)
             /\ gamesData[i].name = "ELDEN RING COOP"

\* C2 witness: the pseudo-game is synthesized from a recent entry with a positive
\* total, next to an owned game.
C2_Witness ==
    /\ Aggregated
    /\ SpacewarId \in IdsOf(recentGames)
    /\ SpacewarId \notin IdsOf(ownedGames)
    /\ ownedGames # <<>>
    /\ TotalOf(recentGames, SpacewarId) = MaxPlaytime
    /\ Len(gamesData) = Len(ownedGames) + 1

\* C3: aggregating the same (owned, recent) pair a second time yields the output of
\* the first time, and re-aggregating an aggregated list with an empty
\* recently-played list lowers the total playtime of no game.
C3_AggregationIdempotent ==
    /\ aggOp = "again" => gamesData = aggPrev
    /\ aggOp = "empty" =>
         \A id \in IdsOf(aggPrev) :
             /\ EntriesOf(gamesData, id) # {}
             /\ \A i \in EntriesOf(gamesData, id) :
                  gamesData[i].playtime_forever >= TotalOf(aggPrev, id)

\* C3 witness: a second aggregation of a pair in which the recent total of the
\* pseudo-game was merged into a smaller, positive owned total.
C3_Witness ==
    /\ aggOp \in {"again", "empty"}
    /\ SpacewarId \in InBoth
    /\ TotalOf(ownedGames, SpacewarId) > 0
    /\ TotalOf(recentGames, SpacewarId) > TotalOf(ownedGames, SpacewarId)
    /\ TotalOf(gamesData, SpacewarId) = TotalOf(recentGames, SpacewarId)

----------------------------------------------------------------------------
(* The library scan: src/unnamed/part_002, lines 182-233, and the store     *)
(* endpoint of the gateway: src/unnamed/part_001, lines 136-161             *)

\* line 207: const chunk = 5
ChunkSize == 5

\* line 211: unprofiledGames.slice(0, 50)
ScanLimit == 50

\* The appids of the library (games), in the order of the list.
ScanGames == [i \in 1..MaxLibrary |-> 10 * i]

ScanIds == { ScanGames[i] : i \in 1..MaxLibrary }

\* The genre descriptions the store knows.
Genres == {"RPG", "Action"}

\* A facet-cache entry: its genre descriptions.
Meta(genres) == [cached |-> TRUE, genres |-> genres]

\* No entry under the key.
NoMeta == [cached |-> FALSE, genres |-> {}]

\* How a store request of the scan settles: the store answers with the details of
\* the game, the store reports success: false, the store request of the gateway
\* fails, the gateway has no credential, or the gateway cannot be reached.
StoreSettles ==
    { [kind |-> "details", genres |-> g] : g \in SUBSET Genres }
      \cup { [kind |-> k, genres |-> {}] :
               k \in {"unsuccessful", "upstreamFailed", "unauthenticated", "unreachable"} }

\* part_001 lines 136-161 behind checkApiKey: the answer the scan receives; the
\* handler answers 200 with empty defaults when the store reports no success and
\* when its own request fails. Status 0 stands for no answer.
StoreAnswer(o) ==
    CASE o.kind = "unreachable" -> [status |-> 0, body |-> NoMeta]
      [] o.kind = "unauthenticated" -> [status |-> 401, body |-> NoMeta]
      [] o.kind = "details" -> [status |-> 200, body |-> Meta(o.genres)]
      [] OTHER -> [status |-> 200, body |-> Meta({})]

\* line 208: the games without a facet-cache entry, in the order of the list.
Unprofiled(ls) == SelectSeq(ScanGames, LAMBDA id : ~ls[id].cached)

\* A plausible slip: the chunk is everything from position i on.
ChunkIdsToTheEnd(rec) ==
    { rec.targets[k] : k \in { n \in 1..Len(rec.targets) : n >= rec.i } }

\* The appids of the chunk of a scan that starts at position i.
ChunkIds(rec) ==
    { rec.targets[k] : k \in { n \in 1..Len(rec.targets) : n >= rec.i /\ n < rec.i + ChunkSize } }

\* lines 188-195, 214: the chunk at position i is started; a game that is cached by
\* now gives its genres, for every other game a store request is issued.
StartChunk(rec, ls) ==
    [rec EXCEPT !.newGenres = rec.newGenres \cup
                    UNION { ls[id].genres : id \in { c \in ChunkIds(rec) : ls[c].cached } },
                !.pending = { c \in ChunkIds(rec) : ~ls[c].cached }]

NoSettled == [appid |-> 0, kind |-> "none"]

\* A plausible slip: the busy flag is not consulted.
ScanIsBusyNever(flag) == FALSE

\* line 183: if (isScanning) return
ScanIsBusy(flag) == flag

RemoveAt(seq, k) == SubSeq(seq, 1, k - 1) \o SubSeq(seq, k + 1, Len(seq))

\* lines 219-232: the genre set is stored and persisted, the metadata state is
\* refreshed from the cache for the target games, the flag is cleared.
FinishScan(rec, rest) ==
    /\ availableGenres' = rec.newGenres
    /\ lsGenres' = rec.newGenres
    /\ gameMetadata' = [id \in ScanIds |->
                           IF (\E k \in 1..Len(rec.targets) : rec.targets[k] = id) /\ lsMeta[id].cached
                           THEN lsMeta[id] ELSE rec.meta[id]]
    /\ isScanning' = FALSE
    /\ scans' = rest
    /\ scanCompleted' = TRUE

\* lines 182-214: scanLibrary is invoked. With the flag set it returns at once.
\* With no uncached game it runs to its end without waiting; otherwise it starts
\* the first chunk.
ScanLibrary ==
    /\ scanCalls < MaxScanCalls
    /\ scanCalls' = scanCalls + 1
    /\ lastSettled' = NoSettled
    /\ IF ScanIsBusy(isScanning)
       THEN UNCHANGED <<lsMeta, lsGenres, isScanning, availableGenres, gameMetadata, scans, scanCompleted>>
       ELSE LET rec == [newGenres |-> availableGenres,
                        targets |-> SubSeq(Unprofiled(lsMeta), 1,
                                           IF Len(Unprofiled(lsMeta)) < ScanLimit
                                           THEN Len(Unprofiled(lsMeta)) ELSE ScanLimit),
                        i |-> 1,
                        pending |-> {},
                        meta |-> gameMetadata]
            IN  IF Len(rec.targets) = 0
                THEN FinishScan(rec, scans) /\ UNCHANGED lsMeta
                ELSE /\ isScanning' = TRUE
                     /\ scans' = Append(scans, StartChunk(rec, lsMeta))
                     /\ scanCompleted' = FALSE
                     /\ UNCHANGED <<lsMeta, lsGenres, availableGenres, gameMetadata>>
    /\ UNCHANGED scanOthers

\* lines 197-204: a store request of a scan settles; an answer is persisted under
\* the key of the game and its genres are collected, a failure is swallowed.
StoreSettled ==
    \E k \in 1..Len(scans) :
        \E id \in scans[k].pending, o \in StoreSettles :
            LET answer == StoreAnswer(o)
            IN  /\ IF answer.status = 200
                   THEN /\ lsMeta' = [lsMeta EXCEPT ![id] = answer.body]
                        /\ scans' = [scans EXCEPT ![k].pending = @ \ {id},
                                                  ![k].newGenres = @ \cup answer.body.genres]
                   ELSE /\ UNCHANGED lsMeta
                        /\ scans' = [scans EXCEPT ![k].pending = @ \ {id}]
                /\ lastSettled' = [appid |-> id, kind |-> o.kind]
                /\ UNCHANGED <<lsGenres, isScanning, availableGenres, gameMetadata, scanCalls,
                               scanCompleted, scanOthers>>

\* lines 213-232: every request of the chunk has settled and the delay has passed;
\* the next chunk is started, or the scan finishes.
ChunkDone ==
    \E k \in 1..Len(scans) :
        /\ scans[k].pending = {}
        /\ lastSettled' = NoSettled
        /\ IF scans[k].i + ChunkSize <= Len(scans[k].targets)
           THEN /\ scans' = [scans EXCEPT ![k] = StartChunk([scans[k] EXCEPT !.i = @ + ChunkSize], lsMeta)]
                /\ UNCHANGED <<lsMeta, lsGenres, isScanning, availableGenres, gameMetadata, scanCompleted>>
           ELSE FinishScan(scans[k], RemoveAt(scans, k)) /\ UNCHANGED lsMeta
        /\ UNCHANGED <<scanCalls, scanOthers>>

\* The window is closed and the application started again: a scan in progress is
\* gone, the state is initialised from local storage (lines 154-174).
Reload ==
    /\ scans' = <<>>
    /\ isScanning' = FALSE
    /\ availableGenres' = lsGenres
    /\ gameMetadata' = lsMeta
    /\ scanCompleted' = (scanCompleted /\ scans = <<>>)
    /\ lastSettled' = NoSettled
    /\ UNCHANGED <<lsMeta, lsGenres, scanCalls, scanOthers>>

\* A fresh installation.
ScanStart ==
    /\ lsMeta = [id \in ScanIds |-> NoMeta]
    /\ lsGenres = {}
    /\ isScanning = FALSE
    /\ availableGenres = {}
    /\ gameMetadata = [id \in ScanIds |-> NoMeta]
    /\ scans = <<>>
    /\ scanCalls = 0
    /\ lastSettled = NoSettled
    /\ scanCompleted = TRUE

ScanIdle == ScanStart

ScanNext ==
    \/ ScanLibrary
    \/ StoreSettled
    \/ ChunkDone
    \/ Reload

----------------------------------------------------------------------------
(* Claims about the library scan *)

\* C11: at most one library scan is in progress at any time, and an invocation of
\* the scan while another invocation has not finished issues no store-metadata
\* request and writes nothing.
C11_SingleFlightScan ==
    [][ /\ Len(scans') <= 1
        /\ (scanCalls' # scanCalls /\ Len(scans) > 0) =>
               UNCHANGED <<scans, lsMeta, lsGenres, isScanning, availableGenres, gameMetadata>> ]_vars

\* C11 happens: a scan of the whole library has one answer in and its other requests
\* outstanding, and the last step was a second invocation of the scan.
C11_Witness ==
    /\ scanCalls >= 2
    /\ Len(scans) = 1
    /\ Len(scans[1].targets) = MaxLibrary
    /\ Cardinality(scans[1].pending) = MaxLibrary - 1
    /\ lastSettled = NoSettled

\* The ways a store-metadata fetch of the scan fails.
FailedFetch == {"upstreamFailed", "unauthenticated", "unreachable"}

\* C12: when fetching store metadata for a game fails during a scan, no facet-cache
\* entry is persisted for that game, so the game is again among the uncached
\* candidates of a later scan.
C12_FailedFetchStaysUncached ==
    lastSettled.kind \in FailedFetch =>
        /\ ~lsMeta[lastSettled.appid].cached
        /\ \E k \in 1..Len(Unprofiled(lsMeta)) : Unprofiled(lsMeta)[k] = lastSettled.appid

\* C13: whenever no scan is running and the most recently started scan has run to
\* completion, the persisted genre set contains every genre of every persisted
\* facet-cache entry, including entries persisted by an earlier scan that was
\* interrupted before it persisted the genre set.
C13_GenreIndexInvariant ==
    (~isScanning /\ scans = <<>> /\ scanCompleted) =>
        \A id \in ScanIds : lsMeta[id].cached => lsMeta[id].genres \subseteq lsGenres

----------------------------------------------------------------------------
(* Randomizer, discovery queue and blacklist: src/unnamed/part_002, lines   *)
(* 245-263, and the queue shown to the user, src/src/App.tsx line 779       *)

\* line 254 and App.tsx line 779: slice(0, 5)
QueueLimit == 5

\* The appids of the games list, in its order.
DiscGames == [i \in 1..MaxDiscGames |-> 10 * i]

Includes(list, x) == \E i \in 1..Len(list) : list[i] = x

\* lines 246, 252: games.filter(g => !blacklist.includes(g.appid))
Pool(list, black) == SelectSeq(list, LAMBDA id : ~Includes(black, id))

\* line 253: the pool in the order the random comparator leaves it in, any order.
Shuffles(pool) ==
    { [i \in 1..Len(pool) |-> pool[f[i]]] :
        f \in { g \in [1..Len(pool) -> 1..Len(pool)] : \A i, j \in 1..Len(pool) : g[i] = g[j] => i = j } }

\* slice(0, n)
Take(list, n) == SubSeq(list, 1, IF Len(list) < n THEN Len(list) ELSE n)

\* App.tsx line 779: discoveryQueue.length > 0 ? discoveryQueue : games.slice(0, 5)
ShownQueue == IF Len(discoveryQueue) > 0 THEN discoveryQueue ELSE Take(DiscGames, QueueLimit)

\* lines 245-249
GenerateRandomGame ==
    LET pool == Pool(DiscGames, blacklist)
    IN  /\ Len(pool) > 0
        /\ \E k \in 1..Len(pool) : randomGame' = pool[k]
        /\ UNCHANGED <<blacklist, lsBlacklist, discoveryQueue, discOthers>>

\* lines 251-255
GenerateDiscoveryQueue ==
    /\ \E shuffled \in Shuffles(Pool(DiscGames, blacklist)) :
           discoveryQueue' = Take(shuffled, QueueLimit)
    /\ UNCHANGED <<blacklist, lsBlacklist, randomGame, discOthers>>

\* lines 257-263
ToggleBlacklist ==
    \E appid \in { DiscGames[i] : i \in 1..Len(DiscGames) } :
        LET next == IF Includes(blacklist, appid)
                    THEN SelectSeq(blacklist, LAMBDA id : id # appid)
                    ELSE Append(blacklist, appid)
        IN  /\ blacklist' = next
            /\ lsBlacklist' = next
            /\ UNCHANGED <<randomGame, discoveryQueue, discOthers>>

DiscStart ==
    /\ blacklist = <<>>
    /\ lsBlacklist = <<>>
    /\ randomGame = 0
    /\ discoveryQueue = <<>>

DiscIdle == DiscStart

DiscNext ==
    \/ GenerateRandomGame
    \/ GenerateDiscoveryQueue
    \/ ToggleBlacklist

----------------------------------------------------------------------------
(* Claims about the randomizer and the discovery queue *)

\* C14: a blacklisted game id never appears in the randomizer pick or in the
\* discovery queue shown to the user, in every state reachable by generate-random,
\* generate-queue and blacklist-toggle operations, while the game stays in the games
\* list.
C14_BlacklistExclusion ==
    /\ ~Includes(blacklist, randomGame)
    /\ \A i \in 1..Len(ShownQueue) : ~Includes(blacklist, ShownQueue[i])
    /\ \A i \in 1..Len(blacklist) : Includes(DiscGames, blacklist[i])

----------------------------------------------------------------------------
(* The vault view: src/unnamed/part_005 (useVault), and the view of the     *)
(* root component: src/src/App.tsx, lines 270-288                           *)

\* Strings are sequences of characters; a character is a letter and its case.
Lower(ch) == [ch |-> ch, upper |-> FALSE]

Upper(ch) == [ch |-> ch, upper |-> TRUE]

\* The place of a letter in the alphabet (the letters the names are written in).
Rank == [a |-> 1, b |-> 2, e |-> 5, g |-> 7, j |-> 10, l |-> 12, m |-> 13, n |-> 14, o |-> 15,
         p |-> 16, r |-> 18, u |-> 21, v |-> 22, z |-> 26]

UpperCaseOf == [a |-> "A", b |-> "B", e |-> "E", g |-> "G", j |-> "J", l |-> "L", m |-> "M", n |-> "N",
                o |-> "O", p |-> "P", r |-> "R", u |-> "U", v |-> "V", z |-> "Z"]

NameZebra == <<Upper("z"), Lower("e"), Lower("b"), Lower("r"), Lower("a")>>

NameApple == <<Upper("a"), Lower("p"), Lower("p"), Lower("l"), Lower("e")>>

NameAppleLower == <<Lower("a"), Lower("p"), Lower("p"), Lower("l"), Lower("e")>>

NameMango == <<Upper("m"), Lower("a"), Lower("n"), Lower("g"), Lower("o")>>

NameAb == <<Upper("a"), Lower("b")>>

DateNov == <<Upper("n"), Lower("o"), Lower("v")>>

DateJul == <<Upper("j"), Lower("u"), Lower("l")>>

\* String.prototype.toLowerCase
ToLowerCase(str) == [i \in 1..Len(str) |-> Lower(str[i].ch)]

\* String.prototype.includes
StringIncludes(str, part) ==
    \E k \in 0..(Len(str) - Len(part)) : SubSeq(str, k + 1, k + Len(part)) = part

\* The first place where two strings differ in their letters, 0 if none within the
\* shorter one.
FirstLetterDifference(a, b) ==
    LET n == IF Len(a) < Len(b) THEN Len(a) ELSE Len(b)
        d == { i \in 1..n : Rank[a[i].ch] # Rank[b[i].ch] }
    IN  IF d = {} THEN 0 ELSE CHOOSE i \in d : \A j \in d : i <= j

\* The first place where two strings differ in case, 0 if none within the shorter one.
FirstCaseDifference(a, b) ==
    LET n == IF Len(a) < Len(b) THEN Len(a) ELSE Len(b)
        d == { i \in 1..n : a[i].upper # b[i].upper }
    IN  IF d = {} THEN 0 ELSE CHOOSE i \in d : \A j \in d : i <= j

\* String.prototype.localeCompare: the letters decide; between strings of the same
\* letters the first difference of case decides, lower case first.
LocaleCompare(a, b) ==
    LET p == FirstLetterDifference(a, b)
        t == FirstCaseDifference(a, b)
    IN  IF p # 0 THEN (IF Rank[a[p].ch] < Rank[b[p].ch] THEN -1 ELSE 1)
        ELSE IF Len(a) # Len(b) THEN (IF Len(a) < Len(b) THEN -1 ELSE 1)
        ELSE IF t # 0 THEN (IF b[t].upper THEN -1 ELSE 1)
        ELSE 0

\* The games of the library: appid, name, total and recent playtime (a missing
\* recent playtime reads as 0, line 43).
VaultGame(id, name, total, recent) ==
    [appid |-> id, name |-> name, playtime_forever |-> total, playtime_2weeks |-> recent]

VaultLibrary ==
    <<VaultGame(10, NameZebra, 601, 0),
      VaultGame(20, NameApple, 60, 30),
      VaultGame(30, NameAppleLower, 600, 90),
      VaultGame(40, NameMango, 61, 0),
      VaultGame(50, NameAb, 1000, 30)>>

\* The games lists: up to MaxVaultGames different games of the library in any order.
VaultGameLists ==
    UNION { { [i \in 1..n |-> VaultLibrary[f[i]]] :
                f \in { g \in [1..n -> 1..Len(VaultLibrary)] : \A i, j \in 1..n : g[i] = g[j] => i = j } } :
            n \in 0..MaxVaultGames }

\* A facet-cache entry as the view reads it: genres (if the entry has the field),
\* the metacritic score (0 for none) and the release date ('' for none).
Facet(has, genres, score, date) ==
    [cached |-> TRUE, hasGenres |-> has, genres |-> genres, score |-> score, release_date |-> date]

\* gameMetadata[appid] is undefined
NoFacet == [cached |-> FALSE, hasGenres |-> FALSE, genres |-> {}, score |-> 0, release_date |-> <<>>]

VaultIds == { VaultLibrary[i].appid : i \in 1..Len(VaultLibrary) }

NothingCached == [id \in VaultIds |-> NoFacet]

SomeCached ==
    (10 :> Facet(TRUE, {"RPG", "Action"}, 90, DateNov)) @@
    (20 :> NoFacet) @@
    (30 :> Facet(TRUE, {"RPG"}, 0, <<>>)) @@
    (40 :> Facet(FALSE, {}, 70, DateJul)) @@
    (50 :> Facet(TRUE, {"Action", "Strategy"}, 70, DateNov))

\* The sets and the cache the view is computed from.
VaultData ==
    { [masteredAppIds |-> <<>>, blacklist |-> <<>>, hunterTargets |-> <<>>, gameMetadata |-> NothingCached],
      [masteredAppIds |-> <<10, 50>>, blacklist |-> <<20, 50>>, hunterTargets |-> <<20, 30>>, gameMetadata |-> SomeCached],
      [masteredAppIds |-> <<50>>, blacklist |-> <<10>>, hunterTargets |-> <<40>>, gameMetadata |-> SomeCached] }

VaultFilters == {"all", "mastered", "blacklisted", "active", "hunter"}

VaultSorts == {"playtime", "name", "recency", "size", "metacritic", "release"}

GenreSelections == { {}, {"RPG"}, {"RPG", "Action"}, {"RPG", "Strategy"} }

SearchQueries == { <<>>, <<Upper("a"), Upper("p")>> }

VaultGroupings == {"none", "alpha", "status"}

VaultPropsSet ==
    { [games |-> g, masteredAppIds |-> d.masteredAppIds, blacklist |-> d.blacklist,
       hunterTargets |-> d.hunterTargets, gameMetadata |-> d.gameMetadata,
       filter |-> f, sort |-> s, selectedGenres |-> sel] :
        g \in VaultGameLists, d \in VaultData, f \in VaultFilters, s \in VaultSorts, sel \in GenreSelections }

\* part_005 line 35, App.tsx line 271
TextFilter(list, query) ==
    SelectSeq(list, LAMBDA g : StringIncludes(ToLowerCase(g.name), ToLowerCase(query)))

\* part_005 lines 38-44
StatusFilter(result, props) ==
    CASE props.filter = "mastered" -> SelectSeq(result, LAMBDA g : Includes(props.masteredAppIds, g.appid))
      [] props.filter = "blacklisted" -> SelectSeq(result, LAMBDA g : Includes(props.blacklist, g.appid))
      [] props.filter = "active" -> SelectSeq(result, LAMBDA g : g.playtime_2weeks > 0)
      [] OTHER -> result

\* App.tsx lines 273-281
RootStatusFilter(result, props) ==
    CASE props.filter = "mastered" -> SelectSeq(result, LAMBDA g : Includes(props.masteredAppIds, g.appid))
      [] props.filter = "blacklisted" -> SelectSeq(result, LAMBDA g : Includes(props.blacklist, g.appid))
      [] props.filter = "active" -> SelectSeq(result, LAMBDA g : g.playtime_2weeks > 0)
      [] props.filter = "hunter" -> SelectSeq(result, LAMBDA g : Includes(props.hunterTargets, g.appid))
      [] OTHER -> result

\* A variant of the genre test: one selected genre is enough.
HasSelectedGenresAny(meta, selected) ==
    meta.cached /\ meta.hasGenres /\ \E sg \in selected : sg \in meta.genres

\* part_005 lines 49-51
HasSelectedGenres(meta, selected) ==
    meta.cached /\ meta.hasGenres /\ \A sg \in selected : sg \in meta.genres

\* part_005 lines 47-53
GenreFilter(result, props) ==
    IF props.selectedGenres # {}
    THEN SelectSeq(result, LAMBDA g : HasSelectedGenres(props.gameMetadata[g.appid], props.selectedGenres))
    ELSE result

\* A variant of the comparator: the metacritic order is reversed.
VaultCompareScoreAscending(a, b, props) ==
    CASE props.sort = "name" -> LocaleCompare(a.name, b.name)
      [] props.sort = "recency" -> b.playtime_2weeks - a.playtime_2weeks
      [] props.sort = "metacritic" ->
             props.gameMetadata[a.appid].score - props.gameMetadata[b.appid].score
      [] props.sort = "release" ->
             LocaleCompare(props.gameMetadata[b.appid].release_date, props.gameMetadata[a.appid].release_date)
      [] OTHER -> b.playtime_forever - a.playtime_forever

\* part_005 lines 56-76: the comparator of the sort.
VaultCompare(a, b, props) ==
    CASE props.sort = "name" -> LocaleCompare(a.name, b.name)
      [] props.sort = "recency" -> b.playtime_2weeks - a.playtime_2weeks
      [] props.sort = "metacritic" ->
             props.gameMetadata[b.appid].score - props.gameMetadata[a.appid].score
      [] props.sort = "release" ->
             LocaleCompare(props.gameMetadata[b.appid].release_date, props.gameMetadata[a.appid].release_date)
      [] OTHER -> b.playtime_forever - a.playtime_forever

\* App.tsx lines 283-287: the comparator of the sort of the root component.
RootCompare(a, b, props) ==
    CASE props.sort = "name" -> LocaleCompare(a.name, b.name)
      [] props.sort = "recency" -> b.playtime_2weeks - a.playtime_2weeks
      [] OTHER -> b.playtime_forever - a.playtime_forever

RECURSIVE VaultSort(_, _)
\* part_005 line 56: [...result].sort(compare), a stable sort: each game goes behind
\* every game that does not sort after it.
VaultSort(list, props) ==
    IF Len(list) = 0 THEN <<>>
    ELSE LET sorted == VaultSort(SubSeq(list, 1, Len(list) - 1), props)
             e == list[Len(list)]
             k == Cardinality({ i \in 1..Len(sorted) : VaultCompare(sorted[i], e, props) <= 0 })
         IN  SubSeq(sorted, 1, k) \o <<e>> \o SubSeq(sorted, k + 1, Len(sorted))

RECURSIVE RootSort(_, _)
\* App.tsx line 283: the same sort with the comparator of the root component.
RootSort(list, props) ==
    IF Len(list) = 0 THEN <<>>
    ELSE LET sorted == RootSort(SubSeq(list, 1, Len(list) - 1), props)
             e == list[Len(list)]
             k == Cardinality({ i \in 1..Len(sorted) : RootCompare(sorted[i], e, props) <= 0 })
         IN  SubSeq(sorted, 1, k) \o <<e>> \o SubSeq(sorted, k + 1, Len(sorted))

\* part_005 lines 34-77
FilteredAndSortedGames(props, query) ==
    VaultSort(GenreFilter(StatusFilter(TextFilter(props.games, query), props), props), props)

\* App.tsx lines 270-288
RootFilteredAndSortedGames(props, query) ==
    RootSort(RootStatusFilter(TextFilter(props.games, query), props), props)

\* A variant of the bands: a playtime of exactly 600 counts as Veteran.
StatusBandInclusive(g, mastered) ==
    IF Includes(mastered, g.appid) THEN "Mastered"
    ELSE IF g.playtime_forever >= 600 THEN "Veteran"
    ELSE IF g.playtime_forever > 60 THEN "Deploying"
    ELSE "Unplayed"

\* part_005 lines 94-97
StatusBand(g, mastered) ==
    IF Includes(mastered, g.appid) THEN "Mastered"
    ELSE IF g.playtime_forever > 600 THEN "Veteran"
    ELSE IF g.playtime_forever > 60 THEN "Deploying"
    ELSE "Unplayed"

\* String.prototype.toUpperCase of one character: its text and the characters the
\* text consists of. A letter gives its capital, a character without case itself,
\* and the letter n preceded by an apostrophe (U+0149) the two characters
\* apostrophe (U+02BC) and N.
CharToUpperCase(c) ==
    CASE c.ch \in DOMAIN UpperCaseOf -> [text |-> UpperCaseOf[c.ch], chars |-> <<UpperCaseOf[c.ch]>>]
      [] c.ch = "'n" -> [text |-> "'N", chars |-> <<"'", "N">>]
      [] OTHER -> [text |-> c.ch, chars |-> <<c.ch>>]

\* name.charAt(0).toUpperCase(); charAt(0) of an empty name is the empty string.
FirstUpperCased(name) ==
    IF Len(name) = 0 THEN [text |-> "", chars |-> <<>>] ELSE CharToUpperCase(name[1])

\* match(/[A-Z]/): some character of the text is a letter A-Z.
MatchesLetter(str) ==
    \E i \in 1..Len(str.chars) : \E l \in DOMAIN UpperCaseOf : str.chars[i] = UpperCaseOf[l]

\* part_005 line 88: the upper-cased first character if it matches /[A-Z]/, else '#'
AlphaLabel(g) ==
    IF MatchesLetter(FirstUpperCased(g.name)) THEN FirstUpperCased(g.name).text ELSE "#"

\* part_005 lines 81-105
GroupedGames(view, grouping, mastered) ==
    LET Label(g) == IF grouping = "alpha" THEN AlphaLabel(g) ELSE StatusBand(g, mastered)
    IN  IF grouping = "none" THEN [l \in {"All"} |-> view]
        ELSE [l \in { Label(view[i]) : i \in 1..Len(view) } |->
                  SelectSeq(view, LAMBDA g : Label(g) = l)]

\* The component renders: the memos are computed for the props and the state.
RenderVault ==
    /\ ~vaultRendered
    /\ filteredAndSortedGames' = FilteredAndSortedGames(vaultProps, searchQuery)
    /\ groupedGames' = GroupedGames(filteredAndSortedGames', vaultGrouping, vaultProps.masteredAppIds)
    /\ rootFilteredAndSortedGames' = RootFilteredAndSortedGames(vaultProps, searchQuery)
    /\ vaultRendered' = TRUE
    /\ UNCHANGED <<vaultProps, searchQuery, vaultGrouping, vaultOthers>>

NoProps ==
    [games |-> <<>>, masteredAppIds |-> <<>>, blacklist |-> <<>>, hunterTargets |-> <<>>,
     gameMetadata |-> NothingCached, filter |-> "all", sort |-> "playtime", selectedGenres |-> {}]

VaultOutputsEmpty ==
    /\ filteredAndSortedGames = <<>>
    /\ groupedGames = [l \in {"All"} |-> <<>>]
    /\ rootFilteredAndSortedGames = <<>>
    /\ vaultRendered = FALSE

VaultStart ==
    /\ vaultProps \in VaultPropsSet
    /\ searchQuery \in SearchQueries
    /\ vaultGrouping \in VaultGroupings
    /\ VaultOutputsEmpty

VaultIdle ==
    /\ vaultProps = NoProps
    /\ searchQuery = <<>>
    /\ vaultGrouping = "none"
    /\ VaultOutputsEmpty

VaultNext == RenderVault

----------------------------------------------------------------------------
(* Claims about the vault view *)

ViewIds(view) == { view[i].appid : i \in 1..Len(view) }

\* The games of the props that pass the text filter and the status filter of useVault.
BeforeGenreFilter == StatusFilter(TextFilter(vaultProps.games, searchQuery), vaultProps)

\* The cached facet entry of the game lists every selected genre.
ListsEverySelectedGenre(g) ==
    LET meta == vaultProps.gameMetadata[g.appid]
    IN  meta.cached /\ meta.hasGenres /\ vaultProps.selectedGenres \subseteq meta.genres

\* C15: when the genre filter is non-empty, the vault view keeps exactly the games
\* whose cached facet entry lists every selected genre; a game with no cached facet
\* entry (or no genre list) is excluded; when the genre filter is empty no game is
\* excluded by it.
C15_GenreAndFilter ==
    vaultRendered =>
        /\ Len(filteredAndSortedGames) = Cardinality(ViewIds(filteredAndSortedGames))
        /\ \A i \in 1..Len(BeforeGenreFilter) :
               LET g == BeforeGenreFilter[i]
               IN  g.appid \in ViewIds(filteredAndSortedGames) <=>
                       (vaultProps.selectedGenres = {} \/ ListsEverySelectedGenre(g))
        /\ ViewIds(filteredAndSortedGames) \subseteq ViewIds(BeforeGenreFilter)

\* C15 happens: with RPG and Action selected, of the games 10 (RPG, Action), 30 (RPG)
\* and 20 (no cached entry) the view keeps game 10 alone.
C15_Witness ==
    /\ vaultRendered
    /\ vaultProps.selectedGenres = {"RPG", "Action"}
    /\ vaultProps.filter = "all"
    /\ searchQuery = <<>>
    /\ ViewIds(vaultProps.games) = {10, 20, 30}
    /\ ViewIds(filteredAndSortedGames) = {10}

\* The games a status keeps.
KeptByStatus(g) ==
    CASE vaultProps.filter = "all" -> TRUE
      [] vaultProps.filter = "mastered" -> \E i \in 1..Len(vaultProps.masteredAppIds) : vaultProps.masteredAppIds[i] = g.appid
      [] vaultProps.filter = "blacklisted" -> \E i \in 1..Len(vaultProps.blacklist) : vaultProps.blacklist[i] = g.appid
      [] vaultProps.filter = "active" -> g.playtime_2weeks > 0
      [] vaultProps.filter = "hunter" -> \E i \in 1..Len(vaultProps.hunterTargets) : vaultProps.hunterTargets[i] = g.appid

\* C16: the vault view with status All keeps every game; Mastered keeps exactly the
\* games in the mastered set; Blacklisted exactly the games in the blacklist; Active
\* exactly the games with recent playtime > 0; Hunter exactly the games in the hunter
\* set (of the games that pass the text filter, with no genre selected).
C16_StatusFilter ==
    (vaultRendered /\ vaultProps.selectedGenres = {}) =>
        \A i \in 1..Len(vaultProps.games) :
            LET g == vaultProps.games[i]
            IN  g.appid \in ViewIds(filteredAndSortedGames) <=>
                    (StringIncludes(ToLowerCase(g.name), ToLowerCase(searchQuery)) /\ KeptByStatus(g))

\* The order the requested key asks for between an earlier and a later game of the view.
InRequestedOrder(a, b) ==
    LET ma == vaultProps.gameMetadata[a.appid]
        mb == vaultProps.gameMetadata[b.appid]
    IN  CASE vaultProps.sort = "name" -> LocaleCompare(a.name, b.name) <= 0
          [] vaultProps.sort = "recency" -> a.playtime_2weeks >= b.playtime_2weeks
          [] vaultProps.sort = "metacritic" -> ma.score >= mb.score
          [] vaultProps.sort = "release" -> LocaleCompare(ma.release_date, mb.release_date) >= 0
          [] OTHER -> a.playtime_forever >= b.playtime_forever

\* The games of the props that pass the three filters of useVault.
Filtered == GenreFilter(BeforeGenreFilter, vaultProps)

ExpectedBand(g) ==
    IF \E i \in 1..Len(vaultProps.masteredAppIds) : vaultProps.masteredAppIds[i] = g.appid
    THEN "Mastered"
    ELSE IF g.playtime_forever > 600 THEN "Veteran"
    ELSE IF g.playtime_forever > 60 THEN "Deploying"
    ELSE "Unplayed"

\* C18: with StatusBand grouping each game of the filtered view is in exactly one
\* band: Mastered if its id is in the mastered set, else Veteran if total playtime
\* > 600, else Deploying if total playtime > 60, else Unplayed.
C18_StatusBandGrouping ==
    (vaultRendered /\ vaultGrouping = "status") =>
        /\ DOMAIN groupedGames \subseteq {"Mastered", "Veteran", "Deploying", "Unplayed"}
        /\ \A i \in 1..Len(filteredAndSortedGames) :
               LET g == filteredAndSortedGames[i]
               IN  \A l \in DOMAIN groupedGames :
                       Cardinality({ k \in 1..Len(groupedGames[l]) : groupedGames[l][k] = g })
                           = IF l = ExpectedBand(g) THEN 1 ELSE 0
        /\ \A l \in DOMAIN groupedGames :
               /\ Len(groupedGames[l]) > 0
               /\ ViewIds(groupedGames[l]) \subseteq ViewIds(filteredAndSortedGames)

\* C18 happens: a game of exactly 600 minutes is Deploying, a game of exactly 60
\* minutes is Unplayed, and a mastered game of 1000 minutes is Mastered.
C18_Witness ==
    /\ vaultRendered
    /\ vaultGrouping = "status"
    /\ vaultProps.masteredAppIds = <<50>>
    /\ DOMAIN groupedGames = {"Mastered", "Deploying", "Unplayed"}
    /\ ViewIds(groupedGames["Deploying"]) = {30}
    /\ ViewIds(groupedGames["Unplayed"]) = {20}
    /\ ViewIds(groupedGames["Mastered"]) = {50}

----------------------------------------------------------------------------
(* The start from local storage: src/unnamed/part_002, lines 143-174 and    *)
(* 235-239, and getStoredLinks, src/src/context/NotificationContext.tsx,    *)
(* lines 105-111                                                            *)

\* A value under a key: nothing, the JSON text of a value, or text that is no JSON.
Absent == [kind |-> "absent", value |-> <<>>]

Json(v) == [kind |-> "json", value |-> v]

Corrupt == [kind |-> "corrupt", value |-> <<>>]

\* What local storage can hold under the blacklist key, the genre key, the
\* facet-cache key of game 10 and the video-link key of game 10.
Storages ==
    [blacklist : {Absent, Corrupt, Json(<<>>), Json(<<10>>)},
     genres : {Absent, Corrupt, Json({"RPG"})},
     meta : {Absent, Corrupt, Json({"RPG"})},
     videos : {Absent, Corrupt, Json(<<"url">>)}]

\* JSON.parse of a stored text: the value, or a SyntaxError.
JsonParse(s) == IF s.kind = "json" THEN [threw |-> FALSE, value |-> s.value]
                ELSE [threw |-> TRUE, value |-> <<>>]

\* part_002 lines 143-146, 154-157, 236: saved ? JSON.parse(saved) : default, with
\* nothing around it that catches.
ParseOrDefault(s, default) ==
    IF s.kind = "absent" THEN [threw |-> FALSE, value |-> default] ELSE JsonParse(s)

\* part_002 lines 160-174: the facet cache is read inside try/catch; an entry that
\* does not parse is left out.
InitialGameMetadata(s) ==
    IF s.kind = "json" THEN Json(s.value) ELSE Absent

NoValues == [blacklist |-> <<>>, availableGenres |-> {}, gameMetadata |-> Absent, vaultBlacklist |-> <<>>]

\* The root component is rendered for the first time: the initialisers of blacklist
\* (143-146), availableGenres (154-157) and gameMetadata (160-174) run, then the
\* blacklist argument of useVault is parsed (236). An error thrown by one of them
\* leaves the render, and nothing is mounted.
MountRoot ==
    /\ bootState = "unmounted"
    /\ LET black == ParseOrDefault(storage.blacklist, <<>>)
           genres == ParseOrDefault(storage.genres, {})
           arg == ParseOrDefault(storage.blacklist, <<>>)
       IN  IF black.threw \/ genres.threw \/ arg.threw
           THEN /\ bootState' = "crashed"
                /\ UNCHANGED bootValues
           ELSE /\ bootState' = "mounted"
                /\ bootValues' = [blacklist |-> black.value,
                                  availableGenres |-> genres.value,
                                  gameMetadata |-> InitialGameMetadata(storage.meta),
                                  vaultBlacklist |-> arg.value]
    /\ UNCHANGED <<storage, storedLinks, bootOthers>>

\* NotificationContext.tsx lines 105-111: getStoredLinks parses inside try/catch and
\* returns {} (no link) when the text is missing or does not parse.
GetStoredLinks ==
    /\ ~storedLinks.loaded
    /\ storedLinks' = [loaded |-> TRUE,
                       links |-> IF storage.videos.kind = "json" THEN storage.videos.value ELSE <<>>]
    /\ UNCHANGED <<storage, bootState, bootValues, bootOthers>>

BootStart ==
    /\ storage \in Storages
    /\ bootState = "unmounted"
    /\ bootValues = NoValues
    /\ storedLinks = [loaded |-> FALSE, links |-> <<>>]

BootIdle ==
    /\ storage = [blacklist |-> Absent, genres |-> Absent, meta |-> Absent, videos |-> Absent]
    /\ bootState = "unmounted"
    /\ bootValues = NoValues
    /\ storedLinks = [loaded |-> FALSE, links |-> <<>>]

BootNext ==
    \/ MountRoot
    \/ GetStoredLinks

----------------------------------------------------------------------------
(* Claims about the start from local storage *)

\* C19: for each persisted key (blacklist, facet-cache entry, genre set, video-link
\* map) an unparseable stored value is treated as absent: the component starts, with
\* the empty default for that key, instead of failing.
C19_CorruptStorageNeverFatal ==
    /\ bootState # "crashed"
    /\ bootState = "mounted" =>
           /\ storage.blacklist = Corrupt => (bootValues.blacklist = <<>> /\ bootValues.vaultBlacklist = <<>>)
           /\ storage.genres = Corrupt => bootValues.availableGenres = {}
           /\ storage.meta = Corrupt => bootValues.gameMetadata = Absent
    /\ (storedLinks.loaded /\ storage.videos = Corrupt) => storedLinks.links = <<>>

----------------------------------------------------------------------------
(* Changing queries of the achievement view: the effect of useAchievements, *)
(* src/src/context/NotificationContext.tsx lines 113-179, run once per      *)
(* change of its dependencies                                               *)

\* The games the view is opened for; 0 stands for no game (null).
QueryIds == {440, 570}

\* The answers the gateway can give for a game: its achievement list (one
\* achievement, named after the game, locked or unlocked), the private-profile
\* body, or no usable answer (a status outside 2xx, or none).
AnswersFor(id) ==
    { [status |-> 200,
       body |-> [achievements |-> Playerstats(TRUE, TRUE, <<[apiname |-> ApiName(id), achieved |-> a]>>, ""),
                 schema |-> DefaultSchema,
                 globalStats |-> DefaultGlobalStats]] : a \in {0, 1} }
      \cup { [status |-> 200,
              body |-> [achievements |-> PrivateAchievements,
                        schema |-> DefaultSchema,
                        globalStats |-> DefaultGlobalStats]],
             Unauthenticated }

NoResult == [settled |-> FALSE, achievements |-> <<>>, error |-> Null]

\* lines 113-123: the appId prop changes and the effect runs. With no game it empties the
\* list and returns; otherwise it starts a fetch for the new query.
QueryChange ==
    \E id \in (QueryIds \cup {0}) \ {viewAppId} :
        /\ viewAppId' = id
        /\ IF id = 0
           THEN /\ achievements' = <<>>
                /\ UNCHANGED <<loading, error, fetches, issued, latestResult>>
           ELSE /\ issued < MaxFetches
                /\ issued' = issued + 1
                /\ loading' = TRUE
                /\ error' = Null
                /\ fetches' = fetches \cup {[appId |-> id, seq |-> issued + 1]}
                /\ latestResult' = NoResult
                /\ UNCHANGED achievements
        /\ UNCHANGED queryOthers

\* lines 123-176: the answer of a fetch arrives and is processed as by
\* ClientResponse, whatever the query is by now: nothing compares the query of the
\* answer with the current one.
FetchSettled ==
    \E f \in fetches :
        \E answer \in AnswersFor(f.appId) :
            /\ fetches' = fetches \ {f}
            /\ IF answer.status # 200
               THEN /\ error' = "Failed to load achievements"
                    /\ UNCHANGED achievements
               ELSE IF answer.body.achievements.error # ""
               THEN /\ error' = answer.body.achievements.error
                    /\ achievements' = <<>>
               ELSE /\ achievements' = SortAchievements(MergeAchievements(PlayerAchievements(answer.body),
                                                                          answer.body.schema,
                                                                          answer.body.globalStats))
                    /\ UNCHANGED error
            /\ loading' = FALSE
            /\ latestResult' = IF f.seq = issued
                               THEN [settled |-> TRUE, achievements |-> achievements', error |-> error']
                               ELSE latestResult
            /\ UNCHANGED <<viewAppId, issued, queryOthers>>

QueryStart ==
    /\ viewAppId = 0
    /\ fetches = {}
    /\ issued = 0
    /\ latestResult = NoResult

QueryIdle == QueryStart

QueryNext ==
    \/ QueryChange
    \/ FetchSettled

----------------------------------------------------------------------------
(* Claims about changing queries *)

\* C20: when the query of the achievement view changes while a fetch for the
\* previous query is in flight, the response of the superseded fetch never replaces
\* the result of the newer one: once the fetches have completed, the achievements
\* and error shown are those of the latest query, whichever response arrived last.
C20_NoStaleOverwrite ==
    (fetches = {} /\ viewAppId # 0 /\ latestResult.settled) =>
        /\ achievements = latestResult.achievements
        /\ error = latestResult.error

----------------------------------------------------------------------------
(* The endpoints of the gateway: src/unnamed/part_001, lines 40-202 *)

\* The endpoints behind checkApiKey (lines 66, 83, 96, 109, 136, 163).
ReadEndpoints == {"profile", "games", "recent", "friends", "store", "achievements"}

\* The body of a configuration request: req.body.apiKey may be missing.
ConfigBodies == { [has |-> h, apiKey |-> k] : h \in BOOLEAN, k \in ApiKeys } \ { [has |-> FALSE, apiKey |-> k] : k \in ApiKeys \ {""} }

\* A plausible slip: only a missing credential is rejected, an empty one is stored.
ConfigRejectsMissing(body) == ~body.has

\* line 42: !apiKey
ConfigRejects(body) == ~body.has \/ body.apiKey = ""

\* line 44: res.status(400).json({ error: 'API Key is required' })
KeyRequired == [status |-> 400, body |-> [error |-> "API Key is required"]]

\* line 48: res.json({ success: true })
ConfigSuccess == [status |-> 200, body |-> [success |-> TRUE]]

\* line 63: res.json({ status: 'active', port: PORT, config: !!STEAM_API_KEY })
Health(key) == [status |-> 200, body |-> [status |-> "active", config |-> key # ""]]

\* A plausible slip: the middleware lets every request through.
CheckApiKeyOpen(key) == TRUE

\* lines 52-58: checkApiKey calls next() iff a credential is configured.
CheckApiKey(key) == key # ""

\* How one upstream request ends: a 2xx answer, an answer with an error status,
\* or no answer at all (status 0).
UpstreamOutcomes ==
    { [ok |-> TRUE, status |-> 200], [ok |-> FALSE, status |-> 403], [ok |-> FALSE, status |-> 0] }

\* lines 72-79 (and 88-92, 101-105, 128-132): the data of a 2xx answer is passed
\* on; a failure is answered with upstream's status, or 500 if there was none.
ProxyResponse(out) ==
    IF out.ok THEN [status |-> 200, body |-> [data |-> "upstream"]]
    ELSE [status |-> IF out.status # 0 THEN out.status ELSE 500, body |-> [error |-> "message"]]

\* lines 40-49: POST /api/config
PostApiConfig ==
    /\ Len(gwConfigs) < MaxConfigs
    /\ \E body \in ConfigBodies :
        /\ gwConfigs' = Append(gwConfigs, body)
        /\ gwEndpoint' = "config"
        /\ gwUpstream' = <<>>
        /\ IF ConfigRejects(body)
           THEN gwResponse' = KeyRequired /\ UNCHANGED STEAM_API_KEY
           ELSE gwResponse' = ConfigSuccess /\ STEAM_API_KEY' = body.apiKey
        /\ UNCHANGED gwOthers

\* lines 61-64: GET /api/health
GetHealth ==
    /\ gwEndpoint' = "health"
    /\ gwUpstream' = <<>>
    /\ gwResponse' = Health(STEAM_API_KEY)
    /\ UNCHANGED <<STEAM_API_KEY, gwConfigs, gwOthers>>

\* lines 52-58: checkApiKey answers 401 and the handler is not entered.
Rejected(endpoint) ==
    /\ gwEndpoint' = endpoint
    /\ gwUpstream' = <<>>
    /\ gwResponse' = Unauthenticated
    /\ UNCHANGED <<STEAM_API_KEY, gwConfigs, gwOthers>>

\* A handler that issues one upstream request and passes its answer on.
Proxy(endpoint, request) ==
    IF ~CheckApiKey(STEAM_API_KEY) THEN Rejected(endpoint)
    ELSE \E out \in UpstreamOutcomes :
        /\ gwEndpoint' = endpoint
        /\ gwUpstream' = <<request>>
        /\ gwResponse' = ProxyResponse(out)
        /\ UNCHANGED <<STEAM_API_KEY, gwConfigs, gwOthers>>

\* lines 66-81: GET /api/profile/:steamid
GetProfile == Proxy("profile", "GetPlayerSummaries")

\* lines 83-94: GET /api/games/:steamid
GetGames == Proxy("games", "GetOwnedGames")

\* lines 96-107: GET /api/recent/:steamid
GetRecent == Proxy("recent", "GetRecentlyPlayedGames")

\* lines 109-134: GET /api/friends/:steamid; the summaries are requested only for
\* a friend list that is not empty.
GetFriends ==
    IF ~CheckApiKey(STEAM_API_KEY) THEN Rejected("friends")
    ELSE \E list \in UpstreamOutcomes, friends \in BOOLEAN, summaries \in UpstreamOutcomes :
        /\ gwEndpoint' = "friends"
        /\ gwUpstream' = IF list.ok /\ friends THEN <<"GetFriendList", "GetPlayerSummaries">>
                         ELSE <<"GetFriendList">>
        /\ gwResponse' = IF ~list.ok THEN ProxyResponse(list)
                         ELSE IF ~friends THEN [status |-> 200, body |-> [data |-> "no friends"]]
                         ELSE ProxyResponse(summaries)
        /\ UNCHANGED <<STEAM_API_KEY, gwConfigs, gwOthers>>

\* lines 136-161: GET /api/store/:appid; every outcome is answered with status 200,
\* with the details of the game or with the empty defaults.
GetStore ==
    IF ~CheckApiKey(STEAM_API_KEY) THEN Rejected("store")
    ELSE \E out \in UpstreamOutcomes, success \in BOOLEAN :
        /\ gwEndpoint' = "store"
        /\ gwUpstream' = <<"appdetails">>
        /\ gwResponse' = [status |-> 200,
                          body |-> [data |-> IF out.ok /\ success THEN "details" ELSE "defaults"]]
        /\ UNCHANGED <<STEAM_API_KEY, gwConfigs, gwOthers>>

\* lines 163-202: GET /api/achievements/:steamid/:appid, for a game whose schema and
\* global percentages upstream does not deliver.
GetAchievements ==
    IF ~CheckApiKey(STEAM_API_KEY) THEN Rejected("achievements")
    ELSE \E ach \in { a \in AchSettled : a.status = "rejected" \/ ~a.data.hasList }, unexpected \in BOOLEAN :
        /\ gwEndpoint' = "achievements"
        /\ gwUpstream' = <<"GetPlayerAchievements", "GetSchemaForGame", "GetGlobalAchievementPercentagesForApp">>
        /\ gwResponse' = AchievementsResponse(ach, [status |-> "rejected", data |-> <<>>],
                                              [status |-> "rejected", data |-> <<>>], unexpected)
        /\ UNCHANGED <<STEAM_API_KEY, gwConfigs, gwOthers>>

GatewayStart ==
    /\ gwEndpoint = "none"
    /\ gwResponse = NoResponse
    /\ gwUpstream = <<>>
    /\ gwConfigs = <<>>

GatewayIdle == GatewayStart

GatewayNext ==
    \/ PostApiConfig
    \/ GetHealth
    \/ GetProfile
    \/ GetGames
    \/ GetRecent
    \/ GetFriends
    \/ GetStore
    \/ GetAchievements

\* C21: while no credential is configured, every read endpoint (profile, games,
\* recent, friends, store, achievements) answers with the Unauthenticated error and
\* issues no upstream request.
C21_UnauthenticatedBeforeNetwork ==
    (gwEndpoint \in ReadEndpoints /\ STEAM_API_KEY = "")
        => (gwResponse = Unauthenticated /\ gwUpstream = <<>>)

\* C21: a read endpoint was asked, after a configuration request that was turned
\* down, while no credential was configured.
C21_Witness ==
    /\ gwEndpoint = "store"
    /\ STEAM_API_KEY = ""
    /\ Len(gwConfigs) > 0
    /\ gwResponse.status = 401

RECURSIVE LastCredential(_)
\* The credential of the last configuration request that carried a non-empty one,
\* "" if there was none.
LastCredential(bodies) ==
    IF Len(bodies) = 0 THEN ""
    ELSE LET body == bodies[Len(bodies)]
         IN  IF body.has /\ body.apiKey # "" THEN body.apiKey
             ELSE LastCredential(SubSeq(bodies, 1, Len(bodies) - 1))

\* A configuration request with an empty or missing credential is answered with an
\* error and changes neither the credential nor the configured flag of the health check.
EmptyConfigChangesNothing ==
    (gwConfigs' # gwConfigs /\ LastCredential(<<gwConfigs'[Len(gwConfigs')]>>) = "")
        => /\ gwResponse'.status = 400
           /\ STEAM_API_KEY' = STEAM_API_KEY
           /\ Health(STEAM_API_KEY').body.config = Health(STEAM_API_KEY).body.config

\* C22: after any sequence of configuration requests the active credential is the
\* one of the last request that carried a non-empty credential; a request with an
\* empty or missing credential is rejected with an error and leaves the credential
\* and the configured flag of the health check unchanged.
C22_CredentialConfiguration ==
    /\ [](STEAM_API_KEY = LastCredential(gwConfigs))
    /\ [][EmptyConfigChangesNothing]_vars

\* C22: a credential was configured, a request with an empty credential followed,
\* and the health check then reported the gateway as configured.
C22_Witness ==
    /\ Len(gwConfigs) = 2
    /\ gwConfigs[1] = [has |-> TRUE, apiKey |-> "KEY1"]
    /\ gwConfigs[2] = [has |-> TRUE, apiKey |-> ""]
    /\ gwEndpoint = "health"
    /\ gwResponse.body.config
    /\ STEAM_API_KEY = "KEY1"

----------------------------------------------------------------------------
(* One pass of the mastery classifier, request by request:                 *)
(* src/src/hooks/useMastery.ts, lines 11-53                                *)

\* A library of n games in ascending order of playtime: game i was played i minutes.
PassLibrary(n) == [ i \in 1..n |-> [appid |-> i, playtime_forever |-> i] ]

\* The libraries a pass is started with: none, one game, three games, and one
\* game more than the check list takes.
PassGameLists == { PassLibrary(n) : n \in {0, 1, 3, MaxPassGames} }

\* The games the account has completed.
CompletedGames == {2, 3}

\* What the resolver answers for a game when the request does not fail.
AnswerFor(appid) ==
    [threw |-> FALSE, success |-> TRUE, hasList |-> TRUE,
     achievements |-> IF appid \in CompletedGames THEN <<1, 1>> ELSE <<1, 0>>]

\* The request failed: axios.get threw.
Threw == [threw |-> TRUE, success |-> FALSE, hasList |-> FALSE, achievements |-> <<>>]

NotRunning == [state |-> "idle", checkList |-> <<>>, idx |-> 0, requests |-> <<>>,
               failures |-> 0, mastered |-> <<>>]

PassStart ==
    /\ passGames \in PassGameLists
    /\ passSteamId \in SteamIds
    /\ passValidating = FALSE
    /\ passMasteredAppIds = <<>>
    /\ passRun = NotRunning

PassIdle ==
    /\ passGames = <<>>
    /\ passSteamId = ""
    /\ passValidating = FALSE
    /\ passMasteredAppIds = <<>>
    /\ passRun = NotRunning

\* lines 12-36: verifyMastery returns at once without games or steamId; otherwise it
\* sets the flag, copies the mastered array, takes the check list and requests the
\* first candidate.
VerifyMastery ==
    /\ passRun.state = "idle"
    /\ IF Len(passGames) = 0 \/ passSteamId = ""
       THEN /\ passRun' = [passRun EXCEPT !.state = "returned"]
            /\ UNCHANGED passValidating
       ELSE /\ passValidating' = TRUE
            /\ passRun' = [state |-> "running", checkList |-> CheckList(passGames), idx |-> 1,
                           requests |-> <<CheckList(passGames)[1]>>, failures |-> 0,
                           mastered |-> passMasteredAppIds]
    /\ UNCHANGED <<passGames, passSteamId, passMasteredAppIds, passOthers>>

\* The next position of a pass whose awaited request settled with o: the candidate
\* is classified (lines 37-46) or the failure is swallowed (lines 47-49), and the
\* loop goes on to the next candidate, if there is one.
AfterSettled(run, o) ==
    LET more == run.idx < Len(run.checkList)
    IN  [state |-> IF more THEN "running" ELSE "done",
         checkList |-> run.checkList,
         idx |-> IF more THEN run.idx + 1 ELSE run.idx,
         requests |-> IF more THEN Append(run.requests, run.checkList[run.idx + 1]) ELSE run.requests,
         failures |-> IF o.threw THEN run.failures + 1 ELSE run.failures,
         mastered |-> PushMastered(run.mastered, run.checkList[run.idx], o)]

\* lines 33-50: the request for a candidate that is not the last one settles.
CandidateSettles ==
    /\ passRun.state = "running"
    /\ passRun.idx < Len(passRun.checkList)
    /\ \E o \in {AnswerFor(passRun.checkList[passRun.idx]), Threw} :
        passRun' = AfterSettled(passRun, o)
    /\ UNCHANGED <<passGames, passSteamId, passValidating, passMasteredAppIds, passOthers>>

\* lines 33-52: the request for the last candidate settles; the pass stores its
\* array and clears the flag.
LastCandidateSettles ==
    /\ passRun.state = "running"
    /\ passRun.idx = Len(passRun.checkList)
    /\ \E o \in {AnswerFor(passRun.checkList[passRun.idx]), Threw} :
        /\ passRun' = AfterSettled(passRun, o)
        /\ passMasteredAppIds' = AfterSettled(passRun, o).mastered
    /\ passValidating' = FALSE
    /\ UNCHANGED <<passGames, passSteamId, passOthers>>

PassNext ==
    \/ VerifyMastery
    \/ CandidateSettles
    \/ LastCandidateSettles

\* The playtime of the game with the given appid in the library of the pass.
PlaytimeOf(appid) ==
    LET i == CHOOSE i \in DOMAIN passGames : passGames[i].appid = appid
    IN  passGames[i].playtime_forever

\* The requests of a finished pass: one per candidate, the candidates being the
\* (at most) 20 games of the library that no other game exceeds in playtime.
OneRequestPerCandidate ==
    LET requested == Elems(passRun.requests)
        owned == { passGames[i].appid : i \in DOMAIN passGames }
    IN  /\ Cardinality(requested) = Len(passRun.requests)
        /\ Len(passRun.requests) = IF Len(passGames) < 20 THEN Len(passGames) ELSE 20
        /\ requested \subseteq owned
        /\ \A a \in requested, b \in owned \ requested : PlaytimeOf(a) >= PlaytimeOf(b)

----------------------------------------------------------------------------
(* The resolver requests of overlapping classifier passes:                 *)
(* src/src/hooks/useMastery.ts, lines 10-56                                *)

FanStart ==
    /\ fanGames = <<>>
    /\ fanSteamId = ""
    /\ fanValidating = FALSE
    /\ fanPasses = EmptyBag

FanIdle == FanStart

\* lines 10-14, 30-36, 55-56: a render with a changed games list or steamId runs the
\* effect again; the effect has no cleanup, so the invocations that are still
\* running go on. verifyMastery returns at once without games or steamId, and
\* otherwise requests its first candidate.
EffectRuns ==
    /\ BagCardinality(fanPasses) < MaxFanPasses
    /\ \E g \in HookGameLists, s \in SteamIds :
        /\ <<g, s>> # <<fanGames, fanSteamId>>
        /\ fanGames' = g
        /\ fanSteamId' = s
        /\ IF Len(g) = 0 \/ s = ""
           THEN UNCHANGED <<fanValidating, fanPasses>>
           ELSE /\ fanValidating' = TRUE
                /\ fanPasses' = fanPasses (+) SetToBag({[account |-> s, checkList |-> CheckList(g), idx |-> 1]})
        /\ UNCHANGED fanOthers

\* lines 33-52: the request a running invocation awaits settles (with an answer or
\* a failure); the invocation requests its next candidate, or, after the last
\* one, clears the flag and returns.
RequestSettles ==
    \E p \in BagToSet(fanPasses) :
        /\ IF p.idx < Len(p.checkList)
           THEN /\ fanPasses' = (fanPasses (-) SetToBag({p})) (+) SetToBag({[p EXCEPT !.idx = p.idx + 1]})
                /\ UNCHANGED fanValidating
           ELSE /\ fanPasses' = fanPasses (-) SetToBag({p})
                /\ fanValidating' = FALSE
        /\ UNCHANGED <<fanGames, fanSteamId, fanOthers>>

FanNext ==
    \/ EffectRuns
    \/ RequestSettles

\* The resolver requests of the classifier that are in flight: one per running
\* invocation.
InFlight == BagCardinality(fanPasses)

\* C24: at every moment at most 5 resolver requests issued by the mastery
\* classifier are in flight, also when the game list or the account id changes
\* while a pass is still running and a new pass is started.
C24_BoundedFanout == InFlight <= 5

----------------------------------------------------------------------------
(* One library scan, request by request: src/unnamed/part_002, lines 182-233 *)

\* A library of n games; the appid of a game is its position in the list.
BatchLibrary(n) == [ i \in 1..n |-> i ]

\* The libraries a scan is followed on: none, fewer games than a chunk, more than
\* a chunk, and more games than a scan takes.
BatchLibraries == { BatchLibrary(n) : n \in {0, 3, 7, MaxScanGames} }

\* The genres the store lists for a game.
StoreGenres(id) == IF id % 2 = 0 THEN {"RPG"} ELSE {"Action"}

\* The facet cache before the scan: empty, one game cached, every game cached.
CachedBefore(list) ==
    { [ id \in Elems(list) |-> IF id \in c THEN Meta(StoreGenres(id)) ELSE NoMeta ] :
        c \in { {}, {2}, Elems(list) } }

\* A plausible slip: every uncached game is a target.
TargetGamesUncapped(list, ls) == SelectSeq(list, LAMBDA id : ~ls[id].cached)

\* lines 208-211: games.filter(g => !localStorage.getItem(...)).slice(0, 50)
TargetGames(list, ls) == Slice(SelectSeq(list, LAMBDA id : ~ls[id].cached), ScanLimit)

ScanNotStarted ==
    [phase |-> "idle", targets |-> <<>>, i |-> 1, pending |-> {}, newGenres |-> {}, requested |-> <<>>]

\* The requests a chunk adds to those issued so far, in the order of the chunk.
Requested(rec) ==
    rec.requested \o SelectSeq(SubSeq(rec.targets, rec.i,
                                      IF rec.i + ChunkSize - 1 < Len(rec.targets)
                                      THEN rec.i + ChunkSize - 1 ELSE Len(rec.targets)),
                               LAMBDA id : id \in rec.pending)

\* line 214: the chunk at position i is started: its requests are issued and
\* Promise.all waits for them; a chunk without a request is through at once.
BeginChunk(rec, ls) ==
    LET started == StartChunk(rec, ls)
    IN  [started EXCEPT !.phase = IF started.pending = {} THEN "delay" ELSE "requests",
                        !.requested = Requested(started)]

\* lines 219-232: the genre set is stored and persisted and the flag is cleared.
BatchFinish(rec) ==
    /\ batchGenres' = rec.newGenres
    /\ batchLsGenres' = [value |-> rec.newGenres, writes |-> batchLsGenres.writes + 1]
    /\ batchScanning' = FALSE
    /\ batchRun' = [rec EXCEPT !.phase = "done"]

BatchStart ==
    /\ batchGames \in BatchLibraries
    /\ batchMeta \in CachedBefore(batchGames)
    /\ batchFailing \in { {}, {3, 4} }
    /\ batchMetaAtStart = batchMeta
    /\ batchScanning = FALSE
    /\ batchGenres = {}
    /\ batchLsGenres = [value |-> {}, writes |-> 0]
    /\ batchRun = ScanNotStarted

BatchIdle ==
    /\ batchGames = <<>>
    /\ batchMeta = <<>>
    /\ batchFailing = {}
    /\ batchMetaAtStart = <<>>
    /\ batchScanning = FALSE
    /\ batchGenres = {}
    /\ batchLsGenres = [value |-> {}, writes |-> 0]
    /\ batchRun = ScanNotStarted

\* lines 182-214: scanLibrary is invoked; without a target it runs to its end,
\* otherwise it issues the requests of the first chunk.
BatchScanLibrary ==
    /\ batchRun.phase = "idle"
    /\ ~batchScanning
    /\ LET rec == [ScanNotStarted EXCEPT !.targets = TargetGames(batchGames, batchMeta),
                                         !.newGenres = batchGenres]
       IN  IF Len(rec.targets) = 0
           THEN BatchFinish(rec)
           ELSE /\ batchScanning' = TRUE
                /\ batchRun' = BeginChunk(rec, batchMeta)
                /\ UNCHANGED <<batchGenres, batchLsGenres>>
    /\ batchMetaAtStart' = batchMeta
    /\ UNCHANGED <<batchGames, batchFailing, batchMeta, batchOthers>>

\* lines 197-204: a store request settles; an answer is persisted under the key
\* of the game and its genres are collected, a failure is swallowed. With the
\* last request of the chunk Promise.all is through and the delay starts.
BatchStoreSettled ==
    /\ batchRun.phase = "requests"
    /\ \E id \in batchRun.pending :
        LET rest == batchRun.pending \ {id}
            phase == IF rest = {} THEN "delay" ELSE "requests"
        IN  IF id \in batchFailing
            THEN /\ batchRun' = [batchRun EXCEPT !.pending = rest, !.phase = phase]
                 /\ UNCHANGED batchMeta
            ELSE /\ batchRun' = [batchRun EXCEPT !.pending = rest, !.phase = phase,
                                                 !.newGenres = @ \cup StoreGenres(id)]
                 /\ batchMeta' = [batchMeta EXCEPT ![id] = Meta(StoreGenres(id))]
    /\ UNCHANGED <<batchGames, batchFailing, batchMetaAtStart, batchScanning, batchGenres,
                   batchLsGenres, batchOthers>>

\* lines 213-232: the delay of 500 ms after a chunk is over; the next chunk is
\* started, or the scan finishes.
DelayElapsed ==
    /\ batchRun.phase = "delay"
    /\ IF batchRun.i + ChunkSize <= Len(batchRun.targets)
       THEN /\ batchRun' = BeginChunk([batchRun EXCEPT !.i = @ + ChunkSize], batchMeta)
            /\ UNCHANGED <<batchScanning, batchGenres, batchLsGenres>>
       ELSE BatchFinish(batchRun)
    /\ UNCHANGED <<batchGames, batchFailing, batchMeta, batchMetaAtStart, batchOthers>>

BatchNext ==
    \/ BatchScanLibrary
    \/ BatchStoreSettled
    \/ DelayElapsed

\* The place of a game in the list of the scan.
PlaceOf(id) == CHOOSE p \in DOMAIN batchGames : batchGames[p] = id

\* The games in front of place p that had no facet-cache entry when the scan started.
UncachedBefore(p) == { q \in 1..(p - 1) : ~batchMetaAtStart[batchGames[q]].cached }

\* C25: one invocation of the library scan issues store-metadata requests only for
\* games of the list that had no persisted facet-cache entry when the scan
\* started, for at most the first 50 of them in list order, and at most one
\* request per game.
C25_ScanCap ==
    LET reqs == batchRun.requested
    IN  /\ Len(reqs) <= 50
        /\ Cardinality(Elems(reqs)) = Len(reqs)
        /\ \A k \in DOMAIN reqs :
             /\ reqs[k] \in Elems(batchGames)
             /\ ~batchMetaAtStart[reqs[k]].cached
             /\ Cardinality(UncachedBefore(PlaceOf(reqs[k]))) < 50

\* C25: a scan over a library with more than 50 uncached games and one cached game
\* came to its end after 50 requests.
C25_Witness ==
    /\ batchRun.phase = "done"
    /\ Len(batchGames) > 50
    /\ batchMetaAtStart[2].cached
    /\ Len(batchRun.requested) = 50

\* Requests are issued only while none is in flight: at the start of the scan, or
\* when the delay after a chunk whose requests have all settled is over.
IssuedAfterBatchAndDelay ==
    (Len(batchRun'.requested) > Len(batchRun.requested))
        => (batchRun.pending = {} /\ batchRun.phase \in {"idle", "delay"})

\* The genre set is written to local storage only when the delay after the last
\* chunk is over (or at once by a scan without a target), with nothing in flight.
PersistedAfterLastBatch ==
    (batchLsGenres'.writes # batchLsGenres.writes)
        => /\ batchRun.pending = {}
           /\ batchRun.phase \in {"idle", "delay"}
           /\ batchRun.i + 5 > Len(batchRun'.targets)
           /\ batchRun'.phase = "done"

\* C26: within one scan at most 5 store-metadata requests are in flight at a time,
\* no request of a later batch is issued before every request of the previous
\* batch has settled and the delay between batches has elapsed, and the
\* available-genre set is persisted only after the last batch.
C26_ScanBatching ==
    /\ [](Cardinality(batchRun.pending) <= 5)
    /\ [][IssuedAfterBatchAndDelay]_vars
    /\ [][PersistedAfterLastBatch]_vars

\* C26: a scan of ten batches, some of whose requests failed, has persisted the
\* genre set once.
C26_Witness ==
    /\ batchRun.phase = "done"
    /\ batchRun.i = 46
    /\ batchFailing # {}
    /\ batchLsGenres.writes = 1

----------------------------------------------------------------------------
(* The grouping of a view: src/unnamed/part_005, lines 81-105 *)

\* Names that start with a digit and with the letter n preceded by an apostrophe
\* (U+0149), and the empty name.
Name7z == <<Lower("7"), Lower("z")>>

NameNBoer == <<Lower("'n"), Lower("b"), Lower("o"), Lower("e"), Lower("r")>>

NameEmpty == <<>>

\* The games that are grouped: names in upper and lower case, names that start
\* with a character that is no letter A-Z, and an empty name; playtimes in every band.
GroupLibrary ==
    <<VaultGame(10, NameZebra, 601, 0),
      VaultGame(20, NameAppleLower, 60, 30),
      VaultGame(30, Name7z, 1000, 90),
      VaultGame(40, NameEmpty, 0, 0),
      VaultGame(50, NameAb, 61, 30),
      VaultGame(60, NameNBoer, 5, 0)>>

\* The views: up to MaxGroupGames different games of the library in any order.
GroupViews ==
    UNION { { [i \in 1..n |-> GroupLibrary[f[i]]] :
                f \in { g \in [1..n -> 1..Len(GroupLibrary)] : \A i, j \in 1..n : g[i] = g[j] => i = j } } :
            n \in 0..MaxGroupGames }

GroupStart ==
    /\ groupView \in GroupViews
    /\ groupMode \in VaultGroupings
    /\ groupMastered \in { <<>>, <<30, 50>> }
    /\ groupResult = [l \in {"All"} |-> <<>>]
    /\ groupDone = FALSE

GroupIdle ==
    /\ groupView = <<>>
    /\ groupMode = "none"
    /\ groupMastered = <<>>
    /\ groupResult = [l \in {"All"} |-> <<>>]
    /\ groupDone = FALSE

\* lines 81-105: the memo groupedGames is computed.
ComputeGroupedGames ==
    /\ ~groupDone
    /\ groupResult' = GroupedGames(groupView, groupMode, groupMastered)
    /\ groupDone' = TRUE
    /\ UNCHANGED <<groupView, groupMode, groupMastered, groupOthers>>

GroupNext == ComputeGroupedGames

\* The places of the games of the groups: group and position.
GroupPlaces == UNION { { <<l, k>> : k \in 1..Len(groupResult[l]) } : l \in DOMAIN groupResult }

\* The place of a game in the view.
ViewPlace(g) == CHOOSE i \in 1..Len(groupView) : groupView[i] = g

\* The name starts with a letter a-z or A-Z.
StartsWithLetter(name) ==
    Len(name) > 0 /\ name[1].ch \in {"a", "b", "e", "g", "j", "l", "m", "n", "o", "p", "r", "u", "v", "z"}

\* C27: for every grouping mode each game of the filtered and sorted sequence is
\* in exactly one group, no game is lost or added, and within each group the games
\* keep the order of the sequence; mode None yields the single group All (also
\* for an empty sequence), and in Alphabetical mode a game whose name does not
\* start with a letter A-Z, including an empty name, is in the group #.
C27_GroupingIsPartition ==
    groupDone =>
        /\ \A i \in 1..Len(groupView) :
               Cardinality({ p \in GroupPlaces : groupResult[p[1]][p[2]] = groupView[i] }) = 1
        /\ Cardinality(GroupPlaces) = Len(groupView)
        /\ \A l \in DOMAIN groupResult : \A k1, k2 \in 1..Len(groupResult[l]) :
               k1 < k2 => ViewPlace(groupResult[l][k1]) < ViewPlace(groupResult[l][k2])
        /\ (groupMode = "none" => groupResult = [l \in {"All"} |-> groupView])
        /\ (groupMode = "alpha" =>
               \A i \in 1..Len(groupView) :
                   ~StartsWithLetter(groupView[i].name) =>
                       /\ "#" \in DOMAIN groupResult
                       /\ \E k \in 1..Len(groupResult["#"]) : groupResult["#"][k] = groupView[i])

\* C28: every game id in the aggregated output is an id of the owned-games list or
\* of the recently-played list; in particular an entry for the pseudo-game id
\* (480) is present only when that id occurs in one of the two inputs.
C28_NoPhantomGames ==
    (aggOp = "fetch") => (IdsOf(gamesData) \subseteq (IdsOf(ownedGames) \cup IdsOf(recentGames)))

----------------------------------------------------------------------------
(* The mastered set across accounts: src/unnamed/part_002, lines 103-119,  *)
(* and src/src/hooks/useMastery.ts                                         *)

\* The games lists useSteamData delivers: none (while loading or logged out), or
\* the one game of the library.
AccountGameLists == { <<>>, <<HookGame(10)>> }

AccountStart ==
    /\ acctSteamId = ""
    /\ acctGames = <<>>
    /\ acctMasteredAppIds = <<>>
    /\ acctPasses = EmptyBag
    /\ acctVerified = {}

AccountIdle == AccountStart

\* useMastery.ts lines 10-36: the effect after a render with the given props; the
\* new invocation copies the mastered array of this render.
PassesAfterEffect(g, s) ==
    IF Len(g) = 0 \/ s = "" THEN acctPasses
    ELSE acctPasses (+) SetToBag({[account |-> s, checkList |-> CheckList(g), idx |-> 1,
                                   mastered |-> acctMasteredAppIds]})

\* part_002 lines 103-108: handleAuthenticate stores the id; the hook keeps its
\* state, and its effect runs with the new steamId.
HandleAuthenticate ==
    /\ BagCardinality(acctPasses) < MaxAccountPasses
    /\ \E id \in SteamIds \ {"", acctSteamId} :
        /\ acctSteamId' = id
        /\ acctPasses' = PassesAfterEffect(acctGames, id)
    /\ UNCHANGED <<acctGames, acctMasteredAppIds, acctVerified, acctOthers>>

\* part_002 lines 110-115: handleLogout clears the id; the root component stays
\* mounted and the hook keeps its state.
HandleLogout ==
    /\ acctSteamId # ""
    /\ acctSteamId' = ""
    /\ UNCHANGED <<acctGames, acctMasteredAppIds, acctPasses, acctVerified, acctOthers>>

\* part_002 line 118: useSteamData delivers another games list; the effect of the
\* hook runs with it.
GamesDelivered ==
    /\ BagCardinality(acctPasses) < MaxAccountPasses
    /\ \E g \in AccountGameLists \ {acctGames} :
        /\ acctGames' = g
        /\ acctPasses' = PassesAfterEffect(g, acctSteamId)
    /\ UNCHANGED <<acctSteamId, acctMasteredAppIds, acctVerified, acctOthers>>

\* useMastery.ts lines 33-52: the response for a candidate arrives; the pass
\* classifies it and awaits the next candidate, or stores its array after the last.
AccountResolverResponse ==
    \E p \in BagToSet(acctPasses), o \in ResolverOutcomes :
        LET appid == p.checkList[p.idx]
            mastered == PushMastered(p.mastered, appid, o)
        IN  /\ acctVerified' = IF IsMasteredOutcome(o) THEN acctVerified \cup {<<p.account, appid>>}
                               ELSE acctVerified
            /\ IF p.idx < Len(p.checkList)
               THEN /\ acctPasses' = (acctPasses (-) SetToBag({p})) (+)
                                       SetToBag({[p EXCEPT !.mastered = mastered, !.idx = p.idx + 1]})
                    /\ UNCHANGED acctMasteredAppIds
               ELSE /\ acctPasses' = acctPasses (-) SetToBag({p})
                    /\ acctMasteredAppIds' = mastered
            /\ UNCHANGED <<acctSteamId, acctGames, acctOthers>>

AccountNext ==
    \/ HandleAuthenticate
    \/ HandleLogout
    \/ GamesDelivered
    \/ AccountResolverResponse

\* C29: every id in the mastered set was classified as mastered by a resolver call
\* made for the currently active account id; after the account id changes no id
\* that was verified only for the previous account remains in the set.
C29_MasteredSetOfCurrentAccount ==
    \A i \in 1..Len(acctMasteredAppIds) : <<acctSteamId, acctMasteredAppIds[i]>> \in acctVerified

----------------------------------------------------------------------------
(* The notes of the guide overlay: src/unnamed/part_003, lines 9-19, 134,  *)
(* 437-441                                                                 *)

\* The achievements of the game the overlay is opened for.
GuideNames == {"FIRST_BLOOD", "SPEEDRUN"}

\* The texts of a note.
NoteTexts == {"", "draft", "final"}

\* No timeout is pending.
NoTimer == [key |-> "", text |-> ""]

NoteStart ==
    /\ noteGuide = ""
    /\ notes = ""
    /\ noteStorage = [k \in GuideNames |-> ""]
    /\ noteTimer = NoTimer
    /\ noteEdited = [k \in GuideNames |-> ""]
    /\ noteEdits = 0

NoteIdle == NoteStart

\* lines 437-441, 10, 14-17: a guide is opened; the overlay mounts, reads the
\* stored note into its state, and its effect arms a timeout of 500 ms.
OpenGuide ==
    /\ noteGuide = ""
    /\ \E k \in GuideNames :
        /\ noteGuide' = k
        /\ notes' = noteStorage[k]
        /\ noteTimer' = [key |-> k, text |-> noteStorage[k]]
    /\ UNCHANGED <<noteStorage, noteEdited, noteEdits, noteOthers>>

\* line 134 and lines 14-19: an edit sets the state; the cleanup of the effect
\* clears the pending timeout and the effect arms a new one for the new text.
EditNote ==
    /\ noteGuide # ""
    /\ noteEdits < MaxNoteEdits
    /\ \E text \in NoteTexts \ {notes} :
        /\ notes' = text
        /\ noteTimer' = [key |-> noteGuide, text |-> text]
        /\ noteEdited' = [noteEdited EXCEPT ![noteGuide] = text]
    /\ noteEdits' = noteEdits + 1
    /\ UNCHANGED <<noteGuide, noteStorage, noteOthers>>

\* lines 15-17: 500 ms after the last change the timeout fires and writes the note.
TimeoutFires ==
    /\ noteTimer # NoTimer
    /\ noteStorage' = [noteStorage EXCEPT ![noteTimer.key] = noteTimer.text]
    /\ noteTimer' = NoTimer
    /\ UNCHANGED <<noteGuide, notes, noteEdited, noteEdits, noteOthers>>

\* lines 441, 18: onClose unmounts the overlay; the cleanup of the effect clears
\* the pending timeout.
CloseGuide ==
    /\ noteGuide # ""
    /\ noteGuide' = ""
    /\ notes' = ""
    /\ noteTimer' = NoTimer
    /\ UNCHANGED <<noteStorage, noteEdited, noteEdits, noteOthers>>

NoteNext ==
    \/ OpenGuide
    \/ EditNote
    \/ TimeoutFires
    \/ CloseGuide

\* C30: every edit of a per-achievement note is eventually written under the key
\* of its (game, achievement) pair: once no write is pending any more, the
\* persisted note equals the text of the last edit, also when the overlay was
\* closed less than 500 ms after that edit.
C30_NotesEventuallyPersisted ==
    (noteTimer = NoTimer) => (\A k \in GuideNames : noteStorage[k] = noteEdited[k])

----------------------------------------------------------------------------
(* Specifications: one per component, the other components at rest *)

AggInit == AggStart /\ HookIdle /\ RootIdle /\ ResolverIdle /\ ScanIdle /\ DiscIdle /\ VaultIdle /\ BootIdle /\ QueryIdle /\ GatewayIdle /\ PassIdle /\ FanIdle /\ BatchIdle /\ GroupIdle /\ AccountIdle /\ NoteIdle

SpecAggregator == AggInit /\ [][AggNext]_vars

HookInit == HookStart /\ AggIdle /\ RootIdle /\ ResolverIdle /\ ScanIdle /\ DiscIdle /\ VaultIdle /\ BootIdle /\ QueryIdle /\ GatewayIdle /\ PassIdle /\ FanIdle /\ BatchIdle /\ GroupIdle /\ AccountIdle /\ NoteIdle

SpecMastery == HookInit /\ [][HookNext]_vars

RootInit == RootStart /\ AggIdle /\ HookIdle /\ ResolverIdle /\ ScanIdle /\ DiscIdle /\ VaultIdle /\ BootIdle /\ QueryIdle /\ GatewayIdle /\ PassIdle /\ FanIdle /\ BatchIdle /\ GroupIdle /\ AccountIdle /\ NoteIdle

ResolverInit == ResolverStart /\ AggIdle /\ HookIdle /\ RootIdle /\ ScanIdle /\ DiscIdle /\ VaultIdle /\ BootIdle /\ QueryIdle /\ GatewayIdle /\ PassIdle /\ FanIdle /\ BatchIdle /\ GroupIdle /\ AccountIdle /\ NoteIdle

SpecResolver == ResolverInit /\ [][ResolverNext]_vars

SpecRootClassifier == RootInit /\ [][RootNext]_vars

ScanInit == ScanStart /\ AggIdle /\ HookIdle /\ RootIdle /\ ResolverIdle /\ DiscIdle /\ VaultIdle /\ BootIdle /\ QueryIdle /\ GatewayIdle /\ PassIdle /\ FanIdle /\ BatchIdle /\ GroupIdle /\ AccountIdle /\ NoteIdle

SpecScan == ScanInit /\ [][ScanNext]_vars

DiscInit == DiscStart /\ AggIdle /\ HookIdle /\ RootIdle /\ ResolverIdle /\ ScanIdle /\ VaultIdle /\ BootIdle /\ QueryIdle /\ GatewayIdle /\ PassIdle /\ FanIdle /\ BatchIdle /\ GroupIdle /\ AccountIdle /\ NoteIdle

SpecDiscovery == DiscInit /\ [][DiscNext]_vars

VaultInit == VaultStart /\ AggIdle /\ HookIdle /\ RootIdle /\ ResolverIdle /\ ScanIdle /\ DiscIdle /\ BootIdle /\ QueryIdle /\ GatewayIdle /\ PassIdle /\ FanIdle /\ BatchIdle /\ GroupIdle /\ AccountIdle /\ NoteIdle

SpecVault == VaultInit /\ [][VaultNext]_vars

BootInit == BootStart /\ AggIdle /\ HookIdle /\ RootIdle /\ ResolverIdle /\ ScanIdle /\ DiscIdle /\ VaultIdle /\ QueryIdle /\ GatewayIdle /\ PassIdle /\ FanIdle /\ BatchIdle /\ GroupIdle /\ AccountIdle /\ NoteIdle

SpecBoot == BootInit /\ [][BootNext]_vars

QueryInit ==
    QueryStart /\ ResolverIdle /\ AggIdle /\ HookIdle /\ RootIdle /\ ScanIdle /\ DiscIdle /\ VaultIdle /\ BootIdle /\ GatewayIdle /\ PassIdle /\ FanIdle /\ BatchIdle /\ GroupIdle /\ AccountIdle /\ NoteIdle

SpecQueryChange == QueryInit /\ [][QueryNext]_vars

GatewayInit == GatewayStart /\ AggIdle /\ BootIdle /\ DiscIdle /\ HookIdle /\ QueryIdle /\ ResolverIdle /\ RootIdle /\ ScanIdle /\ VaultIdle /\ PassIdle /\ FanIdle /\ BatchIdle /\ GroupIdle /\ AccountIdle /\ NoteIdle

SpecGateway == GatewayInit /\ [][GatewayNext]_vars

PassInit == PassStart /\ AggIdle /\ BootIdle /\ DiscIdle /\ GatewayIdle /\ HookIdle /\ QueryIdle /\ ResolverIdle /\ RootIdle /\ ScanIdle /\ VaultIdle /\ FanIdle /\ BatchIdle /\ GroupIdle /\ AccountIdle /\ NoteIdle

\* Every request settles at some time, with an answer or with a failure.
SpecClassifierPass ==
    PassInit /\ [][PassNext]_vars /\ WF_vars(CandidateSettles) /\ WF_vars(LastCandidateSettles)

FanInit == FanStart /\ AggIdle /\ BootIdle /\ DiscIdle /\ GatewayIdle /\ HookIdle /\ PassIdle /\ QueryIdle /\ ResolverIdle /\ RootIdle /\ ScanIdle /\ VaultIdle /\ BatchIdle /\ GroupIdle /\ AccountIdle /\ NoteIdle

SpecClassifierFanout == FanInit /\ [][FanNext]_vars

BatchInit == BatchStart /\ AggIdle /\ BootIdle /\ DiscIdle /\ FanIdle /\ GatewayIdle /\ HookIdle /\ PassIdle /\ QueryIdle /\ ResolverIdle /\ RootIdle /\ ScanIdle /\ VaultIdle /\ GroupIdle /\ AccountIdle /\ NoteIdle

SpecScanBatches == BatchInit /\ [][BatchNext]_vars

GroupInit == GroupStart /\ AggIdle /\ BatchIdle /\ BootIdle /\ DiscIdle /\ FanIdle /\ GatewayIdle /\ HookIdle /\ PassIdle /\ QueryIdle /\ ResolverIdle /\ RootIdle /\ ScanIdle /\ VaultIdle /\ AccountIdle /\ NoteIdle

SpecGrouping == GroupInit /\ [][GroupNext]_vars

AccountInit == AccountStart /\ AggIdle /\ BatchIdle /\ BootIdle /\ DiscIdle /\ FanIdle /\ GatewayIdle /\ GroupIdle /\ HookIdle /\ PassIdle /\ QueryIdle /\ ResolverIdle /\ RootIdle /\ ScanIdle /\ VaultIdle /\ NoteIdle

SpecAccountChange == AccountInit /\ [][AccountNext]_vars

NoteInit == NoteStart /\ AccountIdle /\ AggIdle /\ BatchIdle /\ BootIdle /\ DiscIdle /\ FanIdle /\ GatewayIdle /\ GroupIdle /\ HookIdle /\ PassIdle /\ QueryIdle /\ ResolverIdle /\ RootIdle /\ ScanIdle /\ VaultIdle

SpecNotes == NoteInit /\ [][NoteNext]_vars

====
